---- MODULE Spec2Model ----
(***************************************************************************)
(* Nitro-Express: the dialogue execution engine (DialogueScene) driven by  *)
(* the scene stack (SceneManager), with the PromptScene and DialogueLog    *)
(* overlays and the Typewriter / Animator helpers the engine uses.         *)
(*                                                                         *)
(* Units.  Time is counted in tenths of a second.  Typewriter progress is  *)
(* counted in 1/ProgressUnit of a character, so that the source's          *)
(*   progress += base_cps * cps_scale * delta,  cps_scale = speed / 50     *)
(* is the integer  progress += base_cps * speed * dt.                      *)
(* Python dicts are functions whose DOMAIN is the key set; Python lists    *)
(* are sequences (index i in Python is index i+1 here).                    *)
(***************************************************************************)
EXTENDS Integers, Sequences, FiniteSets, TLC

\* ------------------------------------------------------------------------
\* Bounds of the model
\* ------------------------------------------------------------------------
\* frame times are 0, DtStep, ..., MaxDt * DtStep tenths of a second
MaxDt == 2

\* the longest shake, in tenths of a second
MaxShake == 5

\* ------------------------------------------------------------------------
\* Program constants
\* ------------------------------------------------------------------------
base_cps == 18

text_display_speed == 50

speed_midpoint == 50

auto_advance_base == 8

window_w == 1920

window_h == 1080

offscreen_x == 0 - 10000

ProgressUnit == 10 * speed_midpoint

DtStep == auto_advance_base \div 2

FrameTimes == {DtStep * k : k \in 0..MaxDt}

None == "None"

\* self.background before the first _apply_background (hasattr is false)
Unset == "Unset"

\* self._bg_transition = None
NoFade == [type |-> "None", duration |-> 0, elapsed |-> 0, from |-> None, to |-> None]

NoError == ""

Min(a, b) == IF a <= b THEN a ELSE b

Max(a, b) == IF a >= b THEN a ELSE b

\* ------------------------------------------------------------------------
\* Python dict helpers
\* ------------------------------------------------------------------------
EmptyDict == [k \in {} |-> None]

DictPut(d, key, val) == [k \in (DOMAIN d) \cup {key} |-> IF k = key THEN val ELSE d[k]]

DictDel(d, key) == [k \in (DOMAIN d) \ {key} |-> d[k]]

DictGet(d, key, default) == IF key \in DOMAIN d THEN d[key] ELSE default

\* ------------------------------------------------------------------------
\* Script model (DialogueStructure.py): the authored content.  Texts are
\* sequences of characters so that len(text) is Len(text).
\* ------------------------------------------------------------------------
TextShort == <<"H", "e", "l", "l", "o">>

TextLong == <<"G", "o", "o", "d", " ", "n", "i", "g", "h", "t">>

TextEmpty == << >>

ShowText(name, title, text) ==
  [type |-> "show_text", args |-> [speaker_name |-> name, speaker_title |-> title, text |-> text]]

ShowCharacter(c, x, y) ==
  [type |-> "show_character", args |-> [character_id |-> c, x |-> x, y |-> y]]

MoveCharacter(c, fx, fy, tx, ty, d, easing) ==
  [type |-> "move_character",
   args |-> [character_id |-> c, from_x |-> fx, from_y |-> fy, to_x |-> tx, to_y |-> ty,
             duration |-> d, easing |-> easing]]

HideCharacter(c) == [type |-> "hide_character", args |-> [character_id |-> c]]

SetHighlight(c, dim) == [type |-> "set_highlight", args |-> [character_id |-> c, dim_others |-> dim]]

PlaySfx == [type |-> "play_sfx", args |-> [filename |-> "door"]]

\* an action whose kind the engine's match statement has no case for
Teleport == [type |-> "teleport", args |-> [character_id |-> "alice"]]

\* the "transition" argument of set_background: absent, or a dict with a type
\* and a duration in tenths of a second
NoTransition == [type |-> "absent", duration |-> 0]

Transition(type, duration) == [type |-> type, duration |-> duration]

SetBackground(filename, transition) ==
  [type |-> "set_background", args |-> [filename |-> filename, transition |-> transition]]

PromptOption(message, flag_value) == [message |-> message, flag_value |-> flag_value]

Prompt(id, message, options) ==
  [type |-> "prompt", args |-> [id |-> id, message |-> message, options |-> options]]

Package(scene, required) == [scene_id |-> scene, required_g_flags |-> required]

ChangeDialogueScene(packages) == [type |-> "change_dialogue_scene", args |-> packages]

Step(id, actions) == [id |-> id, actions |-> actions]

Character(id) == [id |-> id, sprite_filename |-> id, scale |-> 1, default_layer |-> 0]

YesNo == <<PromptOption("Yes", "accepted"), PromptOption("No", "declined")>>

\* "intro": the layout show_text, show_character, prompt, show_text, then a
\* branch on the flag the prompt writes.
SceneIntro ==
  [characters |-> <<Character("alice")>>,
   steps |-> <<
     Step("s0", <<ShowText("Alice", "", TextShort),
                  ShowCharacter("alice", 0, 0),
                  Prompt("chapter1_choice", "Go?", YesNo),
                  ShowText("Alice", "", TextLong)>>),
     Step("s1", <<ChangeDialogueScene(<<
                     Package("stage", <<<<"chapter1_choice", "accepted">>>>),
                     Package("branch", << >>)>>)>>),
     Step("s2", <<ShowText("", "", TextShort),
                  ChangeDialogueScene(<<Package("fork", << >>)>>)>>) >>]

\* "stage": character placement, animation, highlight and hiding.
SceneStage ==
  [characters |-> <<Character("alice"), Character("bob")>>,
   steps |-> <<
     Step("s0", <<ShowCharacter("alice", 0 - 1, 0),
                  MoveCharacter("alice", 0 - 1, 0, 1, 0, 8, "linear"),
                  SetHighlight("alice", TRUE),
                  ShowText("Alice", "", TextLong)>>),
     Step("s1", <<HideCharacter("alice"),
                  ShowText("Bob", "", TextShort),
                  MoveCharacter("alice", 0, 0, 1, 0, 8, "linear"),
                  SetHighlight("alice", FALSE),
                  ShowText("Bob", "", TextEmpty),
                  HideCharacter("alice"),
                  ShowText("Bob", "", TextShort)>>) >>]

\* "branch": a prompt at the very start, steps without blocking actions,
\* a re-shown character, a branch whose first package does not match and a
\* prompt followed by a non-blocking action.
SceneBranch ==
  [characters |-> <<Character("alice")>>,
   steps |-> <<
     Step("s0", <<Prompt("mood", "How?", YesNo),
                  HideCharacter("alice"),
                  ShowCharacter("alice", 1, 1)>>),
     Step("s1", << >>),
     Step("s2", <<PlaySfx, SetHighlight("", TRUE)>>),
     Step("s3", <<ShowText("", "", TextShort),
                  ChangeDialogueScene(<<
                     Package("stage", <<<<"mood", "accepted">>, <<"chapter1_choice", "declined">>>>),
                     Package("intro", <<<<"mood", "declined">>>>)>>),
                  ShowText("", "", TextEmpty)>>),
     Step("s4", <<Prompt("mood", "Again?", YesNo),
                  PlaySfx,
                  ShowText("", "", TextShort)>>) >>]

\* "fork": entered by a switch from "intro"; its only step opens with a prompt.
SceneFork ==
  [characters |-> <<Character("alice")>>,
   steps |-> <<
     Step("s0", <<Prompt("mood", "Stay?", YesNo),
                  ShowText("", "", TextShort)>>) >>]

\* "gallery": moves that ease in and out with an overshoot; backgrounds set
\* at once, with fades, and with transitions that are no fade.
SceneGallery ==
  [characters |-> <<Character("alice")>>,
   steps |-> <<
     Step("s0", <<SetBackground("day", NoTransition),
                  ShowCharacter("alice", 0 - 1, 0),
                  MoveCharacter("alice", 0 - 1, 0, 1, 0, 8, "in_back"),
                  SetBackground("night", Transition("fade", 3 * DtStep)),
                  ShowText("", "", TextShort)>>),
     Step("s1", <<MoveCharacter("alice", 1, 0, 0, 0, 8, "out_back"),
                  SetBackground("dusk", Transition("fade", DtStep)),
                  ShowText("Alice", "", TextShort)>>),
     Step("s2", <<SetBackground("day", Transition("fade", 0)),
                  ShowText("Alice", "", TextEmpty),
                  SetBackground("night", Transition("instant", DtStep)),
                  ShowText("", "", TextShort)>>) >>]

\* "broken": a script with content errors. An action of a kind outside the
\* vocabulary, a move with an easing name that is none of the six, and
\* actions on "carol", who is not in the roster.
SceneBroken ==
  [characters |-> <<Character("alice")>>,
   steps |-> <<
     Step("s0", <<Teleport,
                  ShowText("Alice", "", TextShort)>>),
     Step("s1", <<MoveCharacter("alice", 0 - 1, 0, 1, 0, 8, "bounce"),
                  ShowText("Alice", "", TextEmpty)>>),
     Step("s2", <<ShowCharacter("carol", 0, 0),
                  SetHighlight("carol", FALSE),
                  MoveCharacter("carol", 0, 0, 1, 0, 8, "linear"),
                  ShowText("", "", TextShort)>>),
     Step("s3", <<HideCharacter("carol"),
                  ShowText("", "", TextShort)>>) >>]

\* "detour": a switch request followed, in the same step, by a second
\* request and a prompt.
SceneDetour ==
  [characters |-> <<Character("alice")>>,
   steps |-> <<
     Step("s0", <<ShowText("Alice", "", TextShort),
                  ChangeDialogueScene(<<Package("fork", << >>)>>),
                  ChangeDialogueScene(<<Package("stage", << >>)>>),
                  Prompt("mood", "Leave?", YesNo)>>) >>]

\* "aside": a switch request followed by a show_text; the target has no steps.
SceneAside ==
  [characters |-> <<Character("alice")>>,
   steps |-> <<
     Step("s0", <<ShowText("Alice", "", TextShort),
                  ChangeDialogueScene(<<Package("blank", << >>)>>),
                  ShowText("Alice", "", TextEmpty)>>) >>]

\* "reading": text only, with neither a prompt nor a switch.
SceneReading ==
  [characters |-> <<Character("alice")>>,
   steps |-> <<
     Step("s0", <<ShowText("Alice", "", TextLong),
                  PlaySfx,
                  ShowText("Alice", "", TextShort)>>),
     Step("s1", <<ShowText("", "", TextEmpty)>>),
     Step("s2", <<ShowText("", "", TextLong)>>) >>]

\* "blank": a script with zero steps.
SceneBlank == [characters |-> << >>, steps |-> << >>]

SceneIds == {"intro", "stage", "branch", "fork", "gallery", "broken", "detour", "aside", "blank",
             "reading"}

\* the scenes the frames of Spec start in
StartIds == {"intro", "stage", "branch"}

\* SceneManager.get_scene_data
get_scene_data(scene_id) ==
  CASE scene_id = "intro" -> SceneIntro
    [] scene_id = "stage" -> SceneStage
    [] scene_id = "branch" -> SceneBranch
    [] scene_id = "fork" -> SceneFork
    [] scene_id = "gallery" -> SceneGallery
    [] scene_id = "broken" -> SceneBroken
    [] scene_id = "detour" -> SceneDetour
    [] scene_id = "aside" -> SceneAside
    [] scene_id = "blank" -> SceneBlank
    [] scene_id = "reading" -> SceneReading

\* ------------------------------------------------------------------------
\* Input events (EventState.py) as one frame's snapshot
\* ------------------------------------------------------------------------
K_SPACE == "K_SPACE"

K_RETURN == "K_RETURN"

K_ESCAPE == "K_ESCAPE"

K_UP == "K_UP"

K_DOWN == "K_DOWN"

ButtonActions == <<"log", "auto", "more", "hide", "skip">>

ButtonNames == {ButtonActions[i] : i \in 1..Len(ButtonActions)}

OptionSpots == <<"opt0", "opt1">>

\* ------------------------------------------------------------------------
\* State
\* ------------------------------------------------------------------------
VARIABLES
  scene_stack, pending_switch, g_flags, error,
  scene_id, curr_step_idx, curr_action_idx, last_action_idx,
  continue_dialogue, last_pressed_continue,
  auto_mode, auto_advance_timer, hide_mode, skip_mode, dropdown_menu_toggled,
  awaiting_overlays, tw_full_text, tw_progress, dialogue_history,
  characters, mouse_pos, hovered,
  calls, tw_drift, tw_accumulated,
  background, bg_transition, shake, buttons, reloading_language_data, config_value

vars == <<scene_stack, pending_switch, g_flags, error,
          scene_id, curr_step_idx, curr_action_idx, last_action_idx,
          continue_dialogue, last_pressed_continue,
          auto_mode, auto_advance_timer, hide_mode, skip_mode, dropdown_menu_toggled,
          awaiting_overlays, tw_full_text, tw_progress, dialogue_history,
          characters, mouse_pos, hovered, calls, tw_drift, tw_accumulated,
          background, bg_transition, shake, buttons, reloading_language_data,
          config_value>>

\* the whole program state as one record, threaded through the handlers
State ==
  [scene_stack |-> scene_stack, pending_switch |-> pending_switch, g_flags |-> g_flags,
   error |-> error,
   scene_id |-> scene_id, curr_step_idx |-> curr_step_idx,
   curr_action_idx |-> curr_action_idx, last_action_idx |-> last_action_idx,
   continue_dialogue |-> continue_dialogue, last_pressed_continue |-> last_pressed_continue,
   auto_mode |-> auto_mode, auto_advance_timer |-> auto_advance_timer,
   hide_mode |-> hide_mode, skip_mode |-> skip_mode,
   dropdown_menu_toggled |-> dropdown_menu_toggled,
   awaiting_overlays |-> awaiting_overlays, tw_full_text |-> tw_full_text,
   tw_progress |-> tw_progress, dialogue_history |-> dialogue_history,
   characters |-> characters, mouse_pos |-> mouse_pos, hovered |-> hovered,
   calls |-> calls, tw_drift |-> tw_drift, tw_accumulated |-> tw_accumulated,
   background |-> background, bg_transition |-> bg_transition, shake |-> shake,
   buttons |-> buttons, reloading_language_data |-> reloading_language_data,
   config_value |-> config_value]

\* scenes on the stack; only a PromptScene uses the last three fields
DialogueSceneObj == [type |-> "DialogueScene", flag_key |-> "", option_flags |-> << >>, selected |-> 0]

DialogueLogObj == [type |-> "DialogueLog", flag_key |-> "", option_flags |-> << >>, selected |-> 0]

TitlescreenObj == [type |-> "Titlescreen", flag_key |-> "", option_flags |-> << >>, selected |-> 0]

SettingsScreenObj == [type |-> "SettingsScreen", flag_key |-> "", option_flags |-> << >>, selected |-> 0]

PromptSceneObj(flag_key, option_flags) ==
  [type |-> "PromptScene", flag_key |-> flag_key, option_flags |-> option_flags, selected |-> 0]

Raise(s, exc) == [s EXCEPT !.error = exc]

Ok(s) == s.error = NoError

\* config_cps_scale, in 1/speed_midpoint: 1 + ((config_value - 50) / 50.0),
\* config_value the text_display_speed of the configuration
config_cps_scale(s) == speed_midpoint + (s.config_value - speed_midpoint)

\* DialogueScene(sm, data): the constructor divides 0.8 by the scale for the
\* auto-advance delay and raises ZeroDivisionError when the scale is 0; the
\* fields it initialises are those of NewDialogueScene
DialogueScene_init(s) ==
  IF config_cps_scale(s) = 0 THEN Raise(s, "ZeroDivisionError") ELSE s

\* ------------------------------------------------------------------------
\* SceneManager stack primitives
\* ------------------------------------------------------------------------
\* calls records, for the running tick, every hook the SceneManager invokes:
\* <<hook, scene type, position of the scene in the stack>>
Log(s, hook, type, position) == [s EXCEPT !.calls = Append(@, <<hook, type, position>>)]

\* appended without the enter hook
stack_push_NoEnter(s, scene) == [s EXCEPT !.scene_stack = Append(@, scene)]

\* append, then scene.enter(); the enter hooks of PromptScene and DialogueLog
\* change nothing, the body of DialogueScene.enter is applied where a
\* DialogueScene is pushed (_apply_pending_switch)
stack_push(s, scene) ==
  Log([s EXCEPT !.scene_stack = Append(@, scene)], "enter", scene.type, Len(s.scene_stack) + 1)

\* SceneManager.reload_language_data: the language data are read anew and the
\* scenes are to be notified in the next frame
SceneManager_reload_language_data(s) == [s EXCEPT !.reloading_language_data = TRUE]

\* the leave hooks: SettingsScreen.leave writes the configuration and has the
\* language data reloaded; the other scenes leave without an effect
leave(s, type) ==
  IF type = "SettingsScreen" THEN SceneManager_reload_language_data(s) ELSE s

\* the top removed without its leave hook
stack_pop_Silent(s) ==
  IF Len(s.scene_stack) > 0
  THEN [s EXCEPT !.scene_stack = SubSeq(@, 1, Len(@) - 1)]
  ELSE s

\* pop the top and call its leave hook
stack_pop(s) ==
  IF Len(s.scene_stack) > 0
  THEN leave(Log([s EXCEPT !.scene_stack = SubSeq(@, 1, Len(@) - 1)],
                 "leave", s.scene_stack[Len(s.scene_stack)].type, Len(s.scene_stack)),
             s.scene_stack[Len(s.scene_stack)].type)
  ELSE s

switch(s, target) == [s EXCEPT !.pending_switch = target]

\* ------------------------------------------------------------------------
\* Typewriter
\* ------------------------------------------------------------------------
TwLen(s) == ProgressUnit * Len(s.tw_full_text)

\* _progress is a float: tw_progress is its value in 1/ProgressUnit of a
\* character and tw_drift the sign of the round-off the float sum carries on
\* top of it (a round-off is far below one unit)
is_finished(s) ==
  \/ s.tw_progress > TwLen(s)
  \/ s.tw_progress = TwLen(s) /\ s.tw_drift >= 0

\* Typewriter.update with the speed setting the scale comes from; drift is the
\* sign of the round-off of the float sum. min() returns len(text), an int,
\* as soon as the sum is not below it
Typewriter_update(s, speed, dt, drift) ==
  LET step == base_cps * speed * dt
      sum == s.tw_progress + step
  IN IF step = 0 THEN s
     ELSE IF sum > TwLen(s) \/ (sum = TwLen(s) /\ drift >= 0)
          THEN [s EXCEPT !.tw_progress = TwLen(s), !.tw_drift = 0]
          ELSE [s EXCEPT !.tw_progress = sum, !.tw_drift = drift]

\* the update of the scene's typewriter, whose sums are taken as exact
TwUpdate(s, dt) == Typewriter_update(s, config_cps_scale(s), dt, 0)

TwSkip(s) == [s EXCEPT !.tw_progress = TwLen(s), !.tw_drift = 0]

TwReset(s, full_text) == [s EXCEPT !.tw_progress = 0, !.tw_drift = 0, !.tw_full_text = full_text]

\* reset() without a text keeps the text
TwResetNone(s) == [s EXCEPT !.tw_progress = 0, !.tw_drift = 0]

\* the count cut off instead of rounded
RoundedCount_Floor(s) ==
  IF s.tw_drift < 0 /\ s.tw_progress % ProgressUnit = 0 /\ s.tw_progress > 0
  THEN s.tw_progress \div ProgressUnit - 1
  ELSE s.tw_progress \div ProgressUnit

\* Python's round(): to the nearest integer, a tie to the even one
RoundedCount(s) ==
  LET q == s.tw_progress \div ProgressUnit
      r == s.tw_progress % ProgressUnit
  IN IF 2 * r < ProgressUnit THEN q
     ELSE IF 2 * r > ProgressUnit THEN q + 1
     ELSE IF s.tw_drift < 0 THEN q
     ELSE IF s.tw_drift > 0 THEN q + 1
     ELSE IF q % 2 = 0 THEN q ELSE q + 1

\* self._full_text[:round(self._progress)]
visible_text(s) == SubSeq(s.tw_full_text, 1, Min(Len(s.tw_full_text), RoundedCount(s)))

\* ------------------------------------------------------------------------
\* Coordinate animators (the easing laws of CoordsAnimator.py)
\* ------------------------------------------------------------------------
\* a point with the sign of the round-off each float coordinate carries on
\* top of its value in pixels
Coord(x, y) == <<x, y, 0, 0>>

Sign(n) == IF n > 0 THEN 1 ELSE IF n < 0 THEN 0 - 1 ELSE 0

\* lerp(start, end, v) with v in 1/1000; a round-off of v shows in every
\* coordinate that moves
lerp(start, end, v, v_drift) ==
  << start[1] + ((end[1] - start[1]) * v) \div 1000,
     start[2] + ((end[2] - start[2]) * v) \div 1000,
     Sign(end[1] - start[1]) * v_drift,
     Sign(end[2] - start[2]) * v_drift >>

NoAnimator ==
  [kind |-> "None", start |-> Coord(0, 0), end |-> Coord(0, 0), duration |-> 1, elapsed |-> 0,
   v |-> 0, v_drift |-> 0]

\* self._v = 0 until the first update
NewAnimator(kind, start, end, duration) ==
  [kind |-> kind, start |-> start, end |-> end, duration |-> Max(duration, 1), elapsed |-> 0,
   v |-> 0, v_drift |-> 0]

AnimatorFinished(a) == a.elapsed >= a.duration

\* the overshoot s = 1.70158 of OutBack and InBack, in 1/1000
back_s == 1702

\* s + 1.0 is rounded to the double next below the exact sum, so that
\* (s + 1.0) - s evaluates to 1 - 2^-52 * 2
s_plus_one_drift == 0 - 1

\* Elastic at t = 1/8 .. 7/8 with period 0.3, in 1/1000
ElasticTable == <<1364, 912, 1000, 1016, 989, 1006, 998>>

\* the eased value _v in 1/1000 at t = e / d
Ease(kind, e, d) ==
  CASE kind = "linear" -> (1000 * e) \div d
    [] kind = "out_cubic" -> 1000 - (1000 * (d - e) * (d - e) * (d - e)) \div (d * d * d)
    [] kind = "in_cubic" -> (1000 * e * e * e) \div (d * d * d)
    [] kind = "out_back" ->
         1000 + ((e - d) * (e - d) * ((back_s + 1000) * (e - d) + back_s * d)) \div (d * d * d)
    [] kind = "in_back" -> (e * e * ((back_s + 1000) * e - back_s * d)) \div (d * d * d)
    [] kind = "elastic" ->
         IF e = 0 THEN 0
         ELSE IF e = d THEN 1000
         ELSE ElasticTable[Min(7, Max(1, (8 * e) \div d))]

\* the sign of the round-off of _v at the two ends of the move: InBack at
\* t = 1 evaluates (s + 1.0) - s, OutBack at t = 0 evaluates s - (s + 1.0) + 1.0;
\* the other laws are exact there (Elastic sets 0.0 and 1.0 itself)
EaseDrift(kind, e, d) ==
  IF kind = "in_back" /\ e = d THEN s_plus_one_drift
  ELSE IF kind = "out_back" /\ e = 0 THEN 0 - s_plus_one_drift
  ELSE 0

\* _update_t clamps the elapsed time; update stores the eased value
AnimatorUpdate(a, dt) ==
  LET e == Min(a.duration, a.elapsed + Max(dt, 0))
  IN [a EXCEPT !.elapsed = e,
               !.v = Ease(a.kind, e, a.duration),
               !.v_drift = EaseDrift(a.kind, e, a.duration)]

AnimatorCurr(a) == lerp(a.start, a.end, a.v, a.v_drift)

_relative_scale_to_pos(x_scale, y_scale) ==
  Coord((window_w \div 2) * (1 + x_scale), (window_h \div 2) * (1 + y_scale))

EasingKinds == {"linear", "out_cubic", "in_cubic", "out_back", "in_back", "elastic"}

\* ------------------------------------------------------------------------
\* DialogueScene: script access
\* ------------------------------------------------------------------------
Steps(s) == get_scene_data(s.scene_id).steps

Actions(s) == Steps(s)[s.curr_step_idx + 1].actions

\* ------------------------------------------------------------------------
\* DialogueScene._reload_characters
\* ------------------------------------------------------------------------
RosterIds(data) == {data.characters[i].id : i \in 1..Len(data.characters)}

\* ------------------------------------------------------------------------
\* Background and its fade (surfaces are named by their file; the surface of
\* filename None is the black one)
\* ------------------------------------------------------------------------
\* _apply_background: without a transition, or with one that is no fade of a
\* duration above 0, the new background is committed at once; a fade is
\* recorded and leaves the committed background alone
_apply_background(s, filename, transition) ==
  IF transition = NoTransition
  THEN [s EXCEPT !.background = filename, !.bg_transition = NoFade]
  ELSE IF transition.type = "fade" /\ transition.duration > 0 /\ s.background # Unset
       THEN [s EXCEPT !.bg_transition =
               [type |-> "fade", duration |-> transition.duration, elapsed |-> 0,
                from |-> s.background, to |-> filename]]
       ELSE [s EXCEPT !.background = filename, !.bg_transition = NoFade]

\* the last set_background among the first n actions, None if there is none
RECURSIVE LatestIn(_, _)
LatestIn(actions, n) ==
  IF n <= 0 THEN None
  ELSE IF actions[n].type = "set_background" THEN actions[n].args.filename
  ELSE LatestIn(actions, n - 1)

\* _find_latest_background: the current step up to the action before the
\* current one, then the steps before it, the latest first
RECURSIVE FindLatestFrom(_, _)
FindLatestFrom(s, idx) ==
  IF idx < 0 THEN None
  ELSE LET OrEarlier(found) == IF found # None THEN found ELSE FindLatestFrom(s, idx - 1)
           Search(actions) ==
             OrEarlier(LatestIn(actions,
                                IF idx = s.curr_step_idx
                                THEN Min(s.curr_action_idx, Len(actions))
                                ELSE Len(actions)))
       IN Search(get_scene_data(s.scene_id).steps[idx + 1].actions)

_find_latest_background(s) ==
  FindLatestFrom(s, Min(s.curr_step_idx, Len(get_scene_data(s.scene_id).steps) - 1))

\* the search starts with steps[_curr_step_idx], which raises IndexError
\* when the index is the number of steps
_reload_background(s) ==
  IF s.curr_step_idx >= Len(get_scene_data(s.scene_id).steps) THEN Raise(s, "IndexError")
  ELSE _apply_background(s, _find_latest_background(s), NoTransition)

\* the target committed by the first update, whatever time has elapsed
_update_background_transition_Eager(s, dt) ==
  IF s.bg_transition = NoFade THEN s
  ELSE [s EXCEPT !.background = s.bg_transition.to, !.bg_transition = NoFade]

\* elapsed grows by max(dt, 0); the update in which it reaches the duration
\* commits the target and drops the record
_update_background_transition(s, dt) ==
  IF s.bg_transition = NoFade THEN s
  ELSE LET elapsed == s.bg_transition.elapsed + Max(dt, 0)
       IN IF s.bg_transition.duration <= 0 \/ elapsed >= s.bg_transition.duration
          THEN [s EXCEPT !.background = s.bg_transition.to, !.bg_transition = NoFade]
          ELSE [s EXCEPT !.bg_transition.elapsed = elapsed]

_reload_characters(s) ==
  LET ids == RosterIds(get_scene_data(s.scene_id))
  IN [s EXCEPT !.characters =
        [sprite |-> [c \in ids |-> c],
         pos |-> [c \in ids |-> Coord(offscreen_x, 0)],
         animator |-> [c \in ids |-> NoAnimator],
         is_highlighted |-> [c \in ids |-> FALSE]]]

\* _build_buttons appends the five buttons to the list it finds
_build_buttons(s) == [s EXCEPT !.buttons = @ \o ButtonActions]

\* reload_elements: fonts, surfaces and overlay (not part of the state), then
\* the background, the characters and the buttons
reload_elements(s) ==
  LET Rest(r) == IF ~Ok(r) THEN r ELSE _build_buttons(_reload_characters(r))
  IN Rest(_reload_background(s))

\* DialogueScene.reload_language_data
DialogueScene_reload_language_data(s) == reload_elements(s)

\* ------------------------------------------------------------------------
\* DialogueScene._execute_action, one operator per action kind
\* ------------------------------------------------------------------------
show_text(s, args) ==
  [TwReset(s, args.text) EXCEPT
     !.dialogue_history = Append(@, <<args.speaker_name, args.text>>)]

show_character(s, args) ==
  [s EXCEPT !.characters.pos =
     DictPut(@, args.character_id, _relative_scale_to_pos(args.x, args.y))]

move_character(s, args) ==
  IF args.easing \in EasingKinds
  THEN [s EXCEPT !.characters.animator =
          DictPut(@, args.character_id,
                  NewAnimator(args.easing,
                              _relative_scale_to_pos(args.from_x, args.from_y),
                              _relative_scale_to_pos(args.to_x, args.to_y),
                              args.duration))]
  ELSE s

\* three dict.pop calls in a row: each raises KeyError when the key is absent,
\* leaving the earlier pops done
hide_character(s, args) ==
  LET c == args.character_id
  IN IF c \notin DOMAIN s.characters.sprite THEN Raise(s, "KeyError")
     ELSE LET s1 == [s EXCEPT !.characters.sprite = DictDel(@, c)]
          IN IF c \notin DOMAIN s1.characters.pos THEN Raise(s1, "KeyError")
             ELSE LET s2 == [s1 EXCEPT !.characters.pos = DictDel(@, c)]
                  IN IF c \notin DOMAIN s2.characters.animator THEN Raise(s2, "KeyError")
                     ELSE [s2 EXCEPT !.characters.animator = DictDel(@, c)]

\* a variant that never dims the others
set_highlight_NoDim(s, args) ==
  IF args.character_id # ""
  THEN [s EXCEPT !.characters.is_highlighted = DictPut(@, args.character_id, TRUE)]
  ELSE s

set_highlight(s, args) ==
  LET c == args.character_id
      s1 == IF args.dim_others
            THEN [s EXCEPT !.characters.is_highlighted = [k \in DOMAIN @ |-> FALSE]]
            ELSE s
  IN IF c # ""
     THEN [s1 EXCEPT !.characters.is_highlighted = DictPut(@, c, TRUE)]
     ELSE s1

\* ------------------------------------------------------------------------
\* ScreenShake (ui/effects/ScreenShake.py): times in tenths of a second
\* ------------------------------------------------------------------------
ScreenShake_init == [duration |-> 0, timer |-> 0, intensity |-> 0, infinite |-> FALSE]

ScreenShake_start(sh, duration, intensity, infinite) ==
  [duration |-> duration, timer |-> duration, intensity |-> intensity, infinite |-> infinite]

\* a variant that lets a lapsed infinite shake stop
ScreenShake_update_NoReseed(sh, dt) ==
  IF sh.timer <= 0 THEN sh ELSE [sh EXCEPT !.timer = @ - dt]

\* an infinite shake whose timer has lapsed is reseeded, then counted down in
\* the same call
ScreenShake_update(sh, dt) ==
  LET CountDown(r) == IF r.timer <= 0 THEN r ELSE [r EXCEPT !.timer = @ - dt]
  IN CountDown(IF sh.infinite /\ sh.timer <= 0 THEN [sh EXCEPT !.timer = sh.duration] ELSE sh)

\* the offsets get_offset can return, as whole distances from the origin:
\* random() * intensity * (timer / duration)^2 with random() in [0, 1)
get_offset(sh) ==
  IF sh.timer <= 0 THEN {0}
  ELSE 0..((sh.intensity * sh.timer * sh.timer) \div (sh.duration * sh.duration))

screen_shake(s, args) ==
  [s EXCEPT !.shake = ScreenShake_start(@, args.duration, args.intensity, args.infinite)]

prompt(s, args) ==
  LET option_values == [i \in 1..Len(args.options) |-> args.options[i].flag_value]
      pushed == stack_push(s, PromptSceneObj(args.id, option_values))
  IN [pushed EXCEPT !.awaiting_overlays = <<"PromptScene">>]

\* does every required flag of the package equal the stored flag
RequiredFlagsHold(g, required) ==
  \A i \in 1..Len(required) : DictGet(g, required[i][1], "") = required[i][2]

\* the loop over the packages: the body returns on its first pass, either
\* at a flag mismatch (`return` leaves the whole function) or after the
\* switch request, so only the first package is ever examined
change_dialogue_scene(s, packages) ==
  IF Len(packages) = 0 THEN s
  ELSE IF ~RequiredFlagsHold(s.g_flags, packages[1].required_g_flags) THEN s
  ELSE LET Requested(built) == IF Ok(built) THEN switch(built, packages[1].scene_id) ELSE built
       IN Requested(DialogueScene_init(s))

_execute_action(s, action) ==
  CASE action.type = "show_text" -> show_text(s, action.args)
    [] action.type = "set_background" ->
         _apply_background(s, action.args.filename, action.args.transition)
    [] action.type = "show_character" -> show_character(s, action.args)
    [] action.type = "move_character" -> move_character(s, action.args)
    [] action.type = "hide_character" -> hide_character(s, action.args)
    [] action.type = "set_highlight" -> set_highlight(s, action.args)
    [] action.type = "screen_shake" -> screen_shake(s, action.args)
    [] action.type = "prompt" -> prompt(s, action.args)
    [] action.type = "change_dialogue_scene" -> change_dialogue_scene(s, action.args)
    [] OTHER -> s

\* ------------------------------------------------------------------------
\* DialogueScene._execute_step: the while loop; the result carries the
\* state and the returned "step finished" flag
\* ------------------------------------------------------------------------
Ret(s, fin) == [st |-> s, fin |-> fin]

\* a variant that applies the action whether or not the marker differs
ApplyOnce_Always(s, action) ==
  LET a == _execute_action(s, action)
  IN IF Ok(a) THEN [a EXCEPT !.last_action_idx = s.curr_action_idx] ELSE a

\* normal mode applies an action only when the last-applied marker differs
ApplyOnce(s, action) ==
  IF s.last_action_idx # s.curr_action_idx
  THEN LET Marked(a) == IF Ok(a) THEN [a EXCEPT !.last_action_idx = s.curr_action_idx] ELSE a
       IN Marked(_execute_action(s, action))
  ELSE s

\* a variant that waits for the reveal only, not for a continue request
Blocks_RevealOnly(s, ty) ==
  ty \in {"show_text", "prompt"} /\ ~is_finished(s)

\* a show_text or prompt holds the loop until the reveal has finished and a
\* continue request is present
Blocks(s, ty) ==
  ty \in {"show_text", "prompt"} /\ (~is_finished(s) \/ ~s.continue_dialogue)

\* passing an action without consuming the continue request
PassAction_KeepFlag(s, ty) ==
  [s EXCEPT !.curr_action_idx = @ + 1,
            !.last_action_idx = 0 - 1]

\* passing an action: a blocking kind consumes the continue request
PassAction(s, ty) ==
  [s EXCEPT !.continue_dialogue = IF ty \in {"show_text", "prompt"} THEN FALSE ELSE @,
            !.curr_action_idx = @ + 1,
            !.last_action_idx = 0 - 1]

\* a loop without the skip branch: skip mode waits like normal mode
RECURSIVE _execute_step_SkipWaits(_)
_execute_step_SkipWaits(s) ==
  IF ~(s.curr_action_idx < Len(Actions(s))) THEN Ret(s, TRUE)
  ELSE
    LET Passed(d, ty) ==
          IF d.skip_mode /\ ty = "prompt"
          THEN Ret([d EXCEPT !.skip_mode = FALSE], FALSE)
          ELSE _execute_step_SkipWaits(d)
        Waited(a, ty) ==
          IF ~Ok(a) THEN Ret(a, FALSE)
          ELSE IF Blocks(a, ty) THEN Ret(a, FALSE)
          ELSE Passed(PassAction(a, ty), ty)
        Run(action) == Waited(ApplyOnce(s, action), action.type)
    IN Run(Actions(s)[s.curr_action_idx + 1])

RECURSIVE _execute_step(_)
_execute_step(s) ==
  IF ~(s.curr_action_idx < Len(Actions(s))) THEN Ret(s, TRUE)
  ELSE
    LET \* skip mode: the action is applied and passed at once
        Skipped(a, ty) ==
          IF ~Ok(a) THEN Ret(a, FALSE)
          ELSE _execute_step([(IF ty = "show_text" THEN TwSkip(a) ELSE a)
                                EXCEPT !.curr_action_idx = @ + 1, !.last_action_idx = 0 - 1])
        Passed(d, ty) ==
          IF d.skip_mode /\ ty = "prompt"
          THEN Ret([d EXCEPT !.skip_mode = FALSE], FALSE)
          ELSE _execute_step(d)
        Waited(a, ty) ==
          IF ~Ok(a) THEN Ret(a, FALSE)
          ELSE IF Blocks(a, ty) THEN Ret(a, FALSE)
          ELSE Passed(PassAction(a, ty), ty)
        Run(action) ==
          IF s.skip_mode /\ action.type # "prompt"
          THEN Skipped(_execute_action(s, action), action.type)
          ELSE Waited(ApplyOnce(s, action), action.type)
    IN Run(Actions(s)[s.curr_action_idx + 1])

\* a variant that leaves curr_action_idx where the finished step left it
FinishStep_KeepAction(s) ==
  [s EXCEPT !.curr_step_idx = @ + 1,
            !.last_action_idx = 0 - 1, !.continue_dialogue = FALSE]

\* the bookkeeping of a finished step
FinishStep(s) ==
  [s EXCEPT !.curr_step_idx = @ + 1, !.curr_action_idx = 0,
            !.last_action_idx = 0 - 1, !.continue_dialogue = FALSE]

\* a variant that runs a finished step again from its first action
AdvanceBody_RestartStep(s) ==
  LET ThisStep(r) ==
        IF ~Ok(r.st) \/ ~r.fin THEN r.st
        ELSE [r.st EXCEPT !.curr_action_idx = 0, !.last_action_idx = 0 - 1,
                          !.continue_dialogue = FALSE]
  IN ThisStep(_execute_step(s))

\* the part of _advance_dialogue after its terminal guard
AdvanceBody(s) ==
  LET NextStep(f) ==
        IF f.curr_step_idx < Len(Steps(f)) THEN _execute_step(f).st ELSE f
      ThisStep(r) ==
        IF ~Ok(r.st) \/ ~r.fin THEN r.st ELSE NextStep(FinishStep(r.st))
  IN ThisStep(_execute_step(s))

\* a variant whose terminal guard is off by one: steps[len(steps)] raises
_advance_dialogue_OffByOne(s) ==
  IF s.curr_step_idx > Len(Steps(s)) THEN s
  ELSE IF s.curr_step_idx = Len(Steps(s)) THEN Raise(s, "IndexError")
  ELSE AdvanceBody(s)

_advance_dialogue(s) ==
  IF s.curr_step_idx >= Len(Steps(s)) THEN s ELSE AdvanceBody(s)

\* ------------------------------------------------------------------------
\* DialogueScene.__init__ and enter
\* ------------------------------------------------------------------------
EmptyCharacters ==
  [sprite |-> EmptyDict, pos |-> EmptyDict, animator |-> EmptyDict, is_highlighted |-> EmptyDict]

\* a new scene that starts from the initial flag map
NewDialogueScene_FreshFlags(s, id) ==
  [s EXCEPT !.scene_id = id,
            !.g_flags = EmptyDict,
            !.last_pressed_continue = FALSE, !.continue_dialogue = FALSE,
            !.curr_step_idx = 0, !.curr_action_idx = 0, !.last_action_idx = 0 - 1,
            !.dialogue_history = << >>,
            !.dropdown_menu_toggled = FALSE,
            !.auto_mode = FALSE, !.auto_advance_timer = 0,
            !.hide_mode = FALSE, !.skip_mode = FALSE,
            !.awaiting_overlays = << >>,
            !.tw_full_text = << >>, !.tw_progress = 0, !.tw_drift = 0,
            !.background = Unset, !.bg_transition = NoFade,
            !.shake = ScreenShake_init, !.buttons = << >>,
            !.characters = EmptyCharacters,
            !.mouse_pos = "none", !.hovered = "none"]

NewDialogueScene(s, id) ==
  [s EXCEPT !.scene_id = id,
            !.last_pressed_continue = FALSE, !.continue_dialogue = FALSE,
            !.curr_step_idx = 0, !.curr_action_idx = 0, !.last_action_idx = 0 - 1,
            !.dialogue_history = << >>,
            !.dropdown_menu_toggled = FALSE,
            !.auto_mode = FALSE, !.auto_advance_timer = 0,
            !.hide_mode = FALSE, !.skip_mode = FALSE,
            !.awaiting_overlays = << >>,
            !.tw_full_text = << >>, !.tw_progress = 0, !.tw_drift = 0,
            !.background = Unset, !.bg_transition = NoFade,
            !.shake = ScreenShake_init, !.buttons = << >>,
            !.characters = EmptyCharacters,
            !.mouse_pos = "none", !.hovered = "none"]

enter(s) ==
  LET FirstStep(e) ==
        IF Len(Steps(e)) = 0 THEN Raise(e, "IndexError") ELSE _execute_step(e).st
      Reset(r) ==
        IF ~Ok(r) THEN r
        ELSE FirstStep([r EXCEPT !.curr_step_idx = 0, !.curr_action_idx = 0,
                                 !.last_action_idx = 0 - 1, !.continue_dialogue = FALSE,
                                 !.awaiting_overlays = << >>])
  IN Reset(reload_elements(s))

\* ------------------------------------------------------------------------
\* DialogueScene.handle: keyboard_event then mouse_event, both always run
\* ------------------------------------------------------------------------
\* a continue press: complete the reveal, or request the advance
ContinueOrSkipReveal(s) ==
  IF is_finished(s) THEN [s EXCEPT !.continue_dialogue = TRUE] ELSE TwSkip(s)

keyboard_event(s, ev) ==
  LET s1 == IF K_SPACE \in ev.key_up \/ K_RETURN \in ev.key_up
            THEN [s EXCEPT !.last_pressed_continue = FALSE] ELSE s
  IN IF ~(K_SPACE \in ev.key_down \/ K_RETURN \in ev.key_down) THEN s1
     ELSE IF s1.last_pressed_continue THEN s1
     ELSE ContinueOrSkipReveal([s1 EXCEPT !.last_pressed_continue = TRUE])

button_action(s, action) ==
  CASE action = "log" -> stack_push(s, DialogueLogObj)
    [] action = "auto" -> [s EXCEPT !.auto_mode = ~@, !.auto_advance_timer = 0]
    [] action = "more" -> [s EXCEPT !.dropdown_menu_toggled = ~@]
    [] action = "hide" -> [s EXCEPT !.hide_mode = TRUE]
    [] action = "skip" ->
         IF Len(s.dialogue_history) = 0 THEN Raise(s, "IndexError")
         ELSE [s EXCEPT !.dialogue_history = SubSeq(@, 1, Len(@) - 1), !.skip_mode = TRUE]
    [] OTHER -> s

\* a click that continues without looking at the press guard
mouse_event_Unguarded(s, ev) ==
  IF 1 \notin ev.mouse_down THEN s
  ELSE IF s.hide_mode THEN [s EXCEPT !.hide_mode = FALSE]
  ELSE IF s.hovered \in ButtonNames THEN button_action(s, s.hovered)
  ELSE [ContinueOrSkipReveal(s) EXCEPT !.last_pressed_continue = FALSE]

\* a left click: hide mode is left, or the hovered button acts, or the click
\* continues unless a continue key holds the press guard
mouse_event(s, ev) ==
  IF 1 \notin ev.mouse_down THEN s
  ELSE IF s.hide_mode THEN [s EXCEPT !.hide_mode = FALSE]
  ELSE IF s.hovered \in ButtonNames THEN button_action(s, s.hovered)
  ELSE LET s1 == IF ~s.last_pressed_continue THEN ContinueOrSkipReveal(s) ELSE s
       IN [s1 EXCEPT !.last_pressed_continue = FALSE]

\* a click that leaves hide mode and is then handled once more
DialogueScene_handle_ClickThrough(s, ev) ==
  LET k == keyboard_event([s EXCEPT !.mouse_pos = ev.mouse_pos], ev)
      Again(m) == IF k.hide_mode /\ Ok(m) THEN mouse_event(m, ev) ELSE m
  IN IF Ok(k) THEN Again(mouse_event(k, ev)) ELSE k

DialogueScene_handle(s, ev) ==
  LET k == keyboard_event([s EXCEPT !.mouse_pos = ev.mouse_pos], ev)
  IN IF Ok(k) THEN mouse_event(k, ev) ELSE k

\* ------------------------------------------------------------------------
\* PromptScene.handle for the prompt at stack position i
\* ------------------------------------------------------------------------
\* the option rectangle the pointer is in, as a Python index, or -1
OptionHit(pos, n) ==
  IF \E j \in 1..Len(OptionSpots) : OptionSpots[j] = pos /\ j <= n
  THEN (CHOOSE j \in 1..Len(OptionSpots) : OptionSpots[j] = pos) - 1
  ELSE 0 - 1

PromptScene_handle(s, i, ev) ==
  LET self == s.scene_stack[i]
      n == Len(self.option_flags)
      a == IF K_ESCAPE \in ev.key_down THEN stack_pop(s) ELSE s
      sel1 == IF n > 0 /\ K_UP \in ev.key_down THEN (self.selected - 1) % n ELSE self.selected
      sel2 == IF n > 0 /\ K_DOWN \in ev.key_down THEN (sel1 + 1) % n ELSE sel1
      b == IF n > 0 /\ K_RETURN \in ev.key_down
           THEN stack_pop([a EXCEPT !.g_flags = DictPut(@, self.flag_key, self.option_flags[sel2 + 1])])
           ELSE a
      hit == OptionHit(ev.mouse_pos, n)
      sel3 == IF hit >= 0 THEN hit ELSE sel2
      c == IF hit >= 0 /\ 1 \in ev.mouse_down
           THEN stack_pop([b EXCEPT !.g_flags = DictPut(@, self.flag_key, self.option_flags[hit + 1])])
           ELSE b
  IN \* self.selected is kept when the prompt is still on the stack
     IF Len(c.scene_stack) >= i
     THEN [c EXCEPT !.scene_stack[i].selected = sel3]
     ELSE c

\* ------------------------------------------------------------------------
\* DialogueLog.handle
\* ------------------------------------------------------------------------
DialogueLog_handle(s, ev) ==
  IF 1 \in ev.mouse_down \/ K_ESCAPE \in ev.key_down THEN stack_pop(s) ELSE s

\* ------------------------------------------------------------------------
\* DialogueScene.update
\* ------------------------------------------------------------------------
\* a finished animator is dropped; a running one advances and sets the position
UpdateAnimators(s, dt) ==
  LET anim == s.characters.animator
      Moving(k) == anim[k].kind # "None" /\ ~AnimatorFinished(anim[k])
      next == [k \in DOMAIN anim |->
                 IF anim[k].kind = "None" THEN anim[k]
                 ELSE IF AnimatorFinished(anim[k]) THEN NoAnimator
                 ELSE AnimatorUpdate(anim[k], dt)]
      moved == {k \in DOMAIN anim : Moving(k)}
  IN [s EXCEPT !.characters.animator = next,
               !.characters.pos = [k \in (DOMAIN @) \cup moved |->
                                     IF k \in moved THEN AnimatorCurr(next[k]) ELSE @[k]]]

\* timer >= _auto_advance_delay, the delay being 0.8 / config_cps_scale
AutoDelayReached(s, timer) == timer * config_cps_scale(s) >= auto_advance_base * speed_midpoint

\* a variant whose timer runs while the reveal is still going
UpdateAutoMode_Impatient(s, dt) ==
  IF s.auto_mode /\ ~s.continue_dialogue
  THEN IF AutoDelayReached(s, s.auto_advance_timer + dt)
       THEN [s EXCEPT !.continue_dialogue = TRUE, !.auto_advance_timer = 0]
       ELSE [s EXCEPT !.auto_advance_timer = @ + dt]
  ELSE [s EXCEPT !.auto_advance_timer = 0]

UpdateAutoMode(s, dt) ==
  IF s.auto_mode /\ is_finished(s) /\ ~s.continue_dialogue
  THEN IF AutoDelayReached(s, s.auto_advance_timer + dt)
       THEN [s EXCEPT !.continue_dialogue = TRUE, !.auto_advance_timer = 0]
       ELSE [s EXCEPT !.auto_advance_timer = @ + dt]
  ELSE [s EXCEPT !.auto_advance_timer = 0]

UpdateButtons(s) ==
  [s EXCEPT !.hovered = IF s.mouse_pos \in ButtonNames THEN s.mouse_pos ELSE "none"]

OverlayOpen(s) ==
  \E i \in 1..Len(s.scene_stack) :
     \E j \in 1..Len(s.awaiting_overlays) : s.scene_stack[i].type = s.awaiting_overlays[j]

\* a variant that forgets the continue request when the overlay is gone
UpdateAwaitedOverlays_NoContinue(s) ==
  IF Len(s.awaiting_overlays) > 0 /\ ~OverlayOpen(s)
  THEN [s EXCEPT !.awaiting_overlays = << >>]
  ELSE s

UpdateAwaitedOverlays(s) ==
  IF Len(s.awaiting_overlays) > 0 /\ ~OverlayOpen(s)
  THEN [s EXCEPT !.awaiting_overlays = << >>, !.continue_dialogue = TRUE]
  ELSE s

UpdateShake(s, dt) == [s EXCEPT !.shake = ScreenShake_update(@, dt)]

\* update up to its last statement, the call of _advance_dialogue
BeforeAdvance(s, dt) ==
  UpdateAwaitedOverlays(
    UpdateButtons(
      UpdateAutoMode(
        TwUpdate(UpdateAnimators(_update_background_transition(UpdateShake(s, dt), dt), dt),
                 dt), dt)))

DialogueScene_update(s, dt) == _advance_dialogue(BeforeAdvance(s, dt))

\* ------------------------------------------------------------------------
\* SceneManager.update: one frame
\* ------------------------------------------------------------------------
\* Titlescreen.handle: a click acts on the hovered menu button; the pointer
\* positions of the frames are those of the dialogue layout and rest on none
\* of the menu buttons
Titlescreen_handle(s, ev) == s

\* SettingsScreen.handle: ESCAPE (or a click on the hovered return button,
\* which no pointer position of the frames rests on) pops the screen
SettingsScreen_handle(s, ev) ==
  IF K_ESCAPE \in ev.key_down THEN stack_pop(s) ELSE s

SceneHandle(s, i, ev) ==
  CASE s.scene_stack[i].type = "DialogueScene" -> DialogueScene_handle(s, ev)
    [] s.scene_stack[i].type = "PromptScene" -> PromptScene_handle(s, i, ev)
    [] s.scene_stack[i].type = "DialogueLog" -> DialogueLog_handle(s, ev)
    [] s.scene_stack[i].type = "Titlescreen" -> Titlescreen_handle(s, ev)
    [] s.scene_stack[i].type = "SettingsScreen" -> SettingsScreen_handle(s, ev)

\* what scene.handle(self.events) returns: SettingsScreen.handle ends in
\* "return True", Titlescreen.handle returns False, the handle methods of the
\* other scenes are declared "-> None" and return no value
HandleReports(type) == type = "SettingsScreen"

\* for scene in reversed(self.scene_stack): the reverse iterator stops as soon
\* as its index is outside the (possibly shrunk) list; the loop breaks when a
\* handle call returns a true value
RECURSIVE HandleLoop(_, _, _)
HandleLoop(s, i, ev) ==
  IF ~Ok(s) \/ i < 1 \/ i > Len(s.scene_stack) THEN s
  ELSE LET Below(handled) ==
             IF HandleReports(s.scene_stack[i].type) THEN handled
             ELSE HandleLoop(handled, i - 1, ev)
       IN Below(SceneHandle(Log(s, "handle", s.scene_stack[i].type, i), i, ev))

\* for scene in self.scene_stack: scenes appended during the loop are visited
RECURSIVE UpdateLoop(_, _, _)
UpdateLoop(s, i, dt) ==
  IF ~Ok(s) \/ i > Len(s.scene_stack) THEN s
  ELSE LET l == Log(s, "update", s.scene_stack[i].type, i)
       IN IF s.scene_stack[i].type = "DialogueScene"
          THEN UpdateLoop(DialogueScene_update(l, dt), i + 1, dt)
          ELSE UpdateLoop(l, i + 1, dt)

\* for scene in self.scene_stack: scene.draw(self.screen); drawing changes
\* nothing of the state
RECURSIVE DrawLoop(_, _)
DrawLoop(s, i) ==
  IF ~Ok(s) \/ i > Len(s.scene_stack) THEN s
  ELSE DrawLoop(Log(s, "draw", s.scene_stack[i].type, i), i + 1)

\* while self.scene_stack: self.stack_pop()
RECURSIVE PopAll(_)
PopAll(s) == IF Len(s.scene_stack) = 0 THEN s ELSE PopAll(stack_pop(s))

\* the requested scene pushed on top of the scenes already stacked
_apply_pending_switch_NoDrain(s) ==
  IF ~Ok(s) \/ s.pending_switch = None THEN s
  ELSE LET logged == Log(s, "apply_switch", s.pending_switch, 0)
           pushed == stack_push(NewDialogueScene(logged, s.pending_switch), DialogueSceneObj)
           entered == enter(pushed)
       IN IF Ok(entered) THEN [entered EXCEPT !.pending_switch = None] ELSE entered

\* every stacked scene is popped, the pending one is pushed and entered, and
\* only then is the request cleared (a request made by that enter is lost)
_apply_pending_switch(s) ==
  IF ~Ok(s) \/ s.pending_switch = None THEN s
  ELSE LET Cleared(entered) ==
             IF Ok(entered) THEN [entered EXCEPT !.pending_switch = None] ELSE entered
       IN Cleared(
            enter(
              stack_push(
                NewDialogueScene(PopAll(Log(s, "apply_switch", s.pending_switch, 0)),
                                 s.pending_switch),
                DialogueSceneObj)))

\* the log of a tick opens with the height of the stack the tick found
BeginTick(s) == [s EXCEPT !.calls = << <<"tick", "SceneManager", Len(s.scene_stack)>> >>]

\* scene.reload_language_data(): the DialogueScene rebuilds its elements, the
\* hooks of the other scenes change nothing of the state
SceneReload(s, i) ==
  IF s.scene_stack[i].type = "DialogueScene" THEN DialogueScene_reload_language_data(s)
  ELSE s

\* for scene in self.scene_stack: scene.reload_language_data()
RECURSIVE ReloadLoop(_, _)
ReloadLoop(s, i) ==
  IF ~Ok(s) \/ i > Len(s.scene_stack) THEN s
  ELSE ReloadLoop(SceneReload(Log(s, "reload", s.scene_stack[i].type, i), i), i + 1)

\* if self.reloading_language_data: every stacked scene is notified and the
\* flag is cleared
ReloadPhase(s) ==
  LET Done(r) == IF Ok(r) THEN [r EXCEPT !.reloading_language_data = FALSE] ELSE r
  IN IF s.reloading_language_data THEN Done(ReloadLoop(s, 1)) ELSE s

\* the phases in another order: scenes are updated before the input is
\* dispatched
SceneManager_update_UpdateFirst(s, ev, dt) ==
  LET u == UpdateLoop(ReloadPhase(BeginTick(s)), 1, dt)
      h == IF Ok(u) THEN HandleLoop(u, Len(u.scene_stack), ev) ELSE u
      d == IF Ok(h) THEN DrawLoop(h, 1) ELSE h
  IN IF Ok(d) THEN _apply_pending_switch(d) ELSE d

\* the hooks of one tick, in the order the method calls them; the log of the
\* tick before is dropped
SceneManager_update(s, ev, dt) ==
  _apply_pending_switch(
    DrawLoop(
      UpdateLoop(
        HandleLoop(ReloadPhase(BeginTick(s)), Len(s.scene_stack), ev), 1, dt), 1))

\* ------------------------------------------------------------------------
\* Specification
\* ------------------------------------------------------------------------
Install(r) ==
  /\ scene_stack' = r.scene_stack
  /\ pending_switch' = r.pending_switch
  /\ g_flags' = r.g_flags
  /\ error' = r.error
  /\ scene_id' = r.scene_id
  /\ curr_step_idx' = r.curr_step_idx
  /\ curr_action_idx' = r.curr_action_idx
  /\ last_action_idx' = r.last_action_idx
  /\ continue_dialogue' = r.continue_dialogue
  /\ last_pressed_continue' = r.last_pressed_continue
  /\ auto_mode' = r.auto_mode
  /\ auto_advance_timer' = r.auto_advance_timer
  /\ hide_mode' = r.hide_mode
  /\ skip_mode' = r.skip_mode
  /\ dropdown_menu_toggled' = r.dropdown_menu_toggled
  /\ awaiting_overlays' = r.awaiting_overlays
  /\ tw_full_text' = r.tw_full_text
  /\ tw_progress' = r.tw_progress
  /\ dialogue_history' = r.dialogue_history
  /\ characters' = r.characters
  /\ mouse_pos' = r.mouse_pos
  /\ hovered' = r.hovered
  /\ calls' = r.calls
  /\ tw_drift' = r.tw_drift
  /\ tw_accumulated' = r.tw_accumulated
  /\ background' = r.background
  /\ bg_transition' = r.bg_transition
  /\ shake' = r.shake
  /\ buttons' = r.buttons
  /\ reloading_language_data' = r.reloading_language_data
  /\ config_value' = r.config_value

\* the variables hold the record r
Holds(r) ==
  /\ scene_stack = r.scene_stack
  /\ pending_switch = r.pending_switch
  /\ g_flags = r.g_flags
  /\ error = r.error
  /\ scene_id = r.scene_id
  /\ curr_step_idx = r.curr_step_idx
  /\ curr_action_idx = r.curr_action_idx
  /\ last_action_idx = r.last_action_idx
  /\ continue_dialogue = r.continue_dialogue
  /\ last_pressed_continue = r.last_pressed_continue
  /\ auto_mode = r.auto_mode
  /\ auto_advance_timer = r.auto_advance_timer
  /\ hide_mode = r.hide_mode
  /\ skip_mode = r.skip_mode
  /\ dropdown_menu_toggled = r.dropdown_menu_toggled
  /\ awaiting_overlays = r.awaiting_overlays
  /\ tw_full_text = r.tw_full_text
  /\ tw_progress = r.tw_progress
  /\ dialogue_history = r.dialogue_history
  /\ characters = r.characters
  /\ mouse_pos = r.mouse_pos
  /\ hovered = r.hovered
  /\ calls = r.calls
  /\ tw_drift = r.tw_drift
  /\ tw_accumulated = r.tw_accumulated
  /\ background = r.background
  /\ bg_transition = r.bg_transition
  /\ shake = r.shake
  /\ buttons = r.buttons
  /\ reloading_language_data = r.reloading_language_data
  /\ config_value = r.config_value

\* the process-wide flag map at start-up
InitialFlags == EmptyDict

\* the SceneManager as constructed, before any scene is pushed
Constructed ==
  [scene_stack |-> << >>, pending_switch |-> None, g_flags |-> InitialFlags,
   error |-> NoError,
   scene_id |-> "intro", curr_step_idx |-> 0, curr_action_idx |-> 0, last_action_idx |-> 0 - 1,
   continue_dialogue |-> FALSE, last_pressed_continue |-> FALSE,
   auto_mode |-> FALSE, auto_advance_timer |-> 0, hide_mode |-> FALSE, skip_mode |-> FALSE,
   dropdown_menu_toggled |-> FALSE, awaiting_overlays |-> << >>,
   tw_full_text |-> << >>, tw_progress |-> 0, dialogue_history |-> << >>,
   characters |-> EmptyCharacters, mouse_pos |-> "none", hovered |-> "none",
   calls |-> << >>, tw_drift |-> 0, tw_accumulated |-> 0,
   background |-> Unset, bg_transition |-> NoFade, shake |-> ScreenShake_init,
   buttons |-> << >>, reloading_language_data |-> TRUE,
   config_value |-> text_display_speed]

\* the state once the first DialogueScene has been switched to, at the end of
\* a frame; the frame has cleared the reload flag of the construction
StartedFrom(c, id) ==
  LET Switched(built) == IF Ok(built) THEN _apply_pending_switch(switch(built, id)) ELSE built
  IN Switched(DialogueScene_init([c EXCEPT !.reloading_language_data = FALSE]))

Started(id) == StartedFrom(Constructed, id)

\* one frame of the main loop with this frame's input snapshot and elapsed time
Tick(ev, dt) ==
  /\ error = NoError
  /\ Install(SceneManager_update(State, ev, dt))

DialogueOnStack(stack) == \E i \in 1..Len(stack) : stack[i].type = "DialogueScene"

\* a direct call of DialogueScene._advance_dialogue
AdvanceCall ==
  /\ error = NoError
  /\ DialogueOnStack(scene_stack)
  /\ Install(_advance_dialogue(State))

Event(keys_down, keys_up, buttons_down, pos) ==
  [key_down |-> keys_down, key_up |-> keys_up, mouse_down |-> buttons_down, mouse_pos |-> pos]

\* pointer positions and key presses the frames of Spec draw from
CorePositions == {"none", "opt0", "opt1", "auto", "skip"}

CoreKeySets == {{K_SPACE}, {K_RETURN}, {K_ESCAPE}, {K_ESCAPE, K_RETURN}}

\* the pointer moves or rests; one key set goes down; the continue key is
\* released; the left button goes down; a key and the button in one frame
CoreEvents ==
  {Event({}, {}, {}, p) : p \in CorePositions}
  \cup {Event(k, {}, {}, "none") : k \in CoreKeySets}
  \cup {Event({}, {K_SPACE}, {}, "none")}
  \cup {Event({}, {}, {1}, p) : p \in CorePositions}
  \cup {Event({K_SPACE}, {}, {1}, "none"), Event({K_RETURN}, {}, {1}, "opt1")}

\* the title screen as main() pushes it, with the settings screen opened on it
Configuring == stack_push(stack_push(Constructed, TitlescreenObj), SettingsScreenObj)

\* the program with a dialogue scene just entered, or in its settings screen
Init ==
  \/ \E id \in StartIds : Holds(Started(id))
  \/ Holds(Configuring)

\* the frames of the main loop
Next == \E ev \in CoreEvents, dt \in FrameTimes : Tick(ev, dt)

Spec == Init /\ [][Next]_vars

\* the frames, and the engine's advance called on its own
NextAdvance ==
  \/ \E ev \in CoreEvents, dt \in FrameTimes : Tick(ev, dt)
  \/ AdvanceCall

SpecAdvance == Init /\ [][NextAdvance]_vars

\* ------------------------------------------------------------------------
\* The frames of scene "gallery"
\* ------------------------------------------------------------------------
\* the pointer rests or moves to a mode button; SPACE goes down; SPACE is
\* released; the left button goes down
GalleryEvents ==
  {Event({}, {}, {}, p) : p \in {"none", "auto", "skip"}}
  \cup {Event({}, {}, {1}, p) : p \in {"none", "auto", "skip"}}
  \cup {Event({K_SPACE}, {}, {}, "none"), Event({}, {K_SPACE}, {}, "none")}

InitGallery == Holds(Started("gallery"))

NextGallery == \E ev \in GalleryEvents, dt \in FrameTimes : Tick(ev, dt)

SpecGallery == InitGallery /\ [][NextGallery]_vars

\* ------------------------------------------------------------------------
\* The frames of scene "broken"
\* ------------------------------------------------------------------------
InitBroken == Holds(Started("broken"))

NextBroken == \E ev \in GalleryEvents, dt \in FrameTimes : Tick(ev, dt)

SpecBroken == InitBroken /\ [][NextBroken]_vars

\* ------------------------------------------------------------------------
\* The frames of scenes whose switch request has actions behind it
\* ------------------------------------------------------------------------
InitSwitch == \E id \in {"detour", "aside"} : Holds(Started(id))

NextSwitch == \E ev \in CoreEvents, dt \in FrameTimes : Tick(ev, dt)

SpecSwitch == InitSwitch /\ [][NextSwitch]_vars

\* ------------------------------------------------------------------------
\* Auto mode left alone: frames of positive elapsed time without any input,
\* in the scripts that hold neither a prompt nor a switch
\* ------------------------------------------------------------------------
NoInput == Event({}, {}, {}, "none")

\* positive elapsed times, in tenths of a second
PositiveFrameTimes == 1..auto_advance_base

\* the auto button has been clicked in the frames after the entry
InitAuto == \E id \in {"gallery", "reading"} : Holds([Started(id) EXCEPT !.auto_mode = TRUE])

NextAuto == \E dt \in PositiveFrameTimes : Tick(NoInput, dt)

SpecAuto == InitAuto /\ [][NextAuto]_vars

\* ------------------------------------------------------------------------
\* Frames whose elapsed time may be negative: update(dt) takes any float
\* ------------------------------------------------------------------------
BackwardTime == 0 - DtStep

InitClock == Holds(Started("gallery"))

\* a frame of negative elapsed time is taken while the reveal has progress
\* to lose, which keeps tw_progress within one frame below zero
NextClock ==
  \/ \E ev \in GalleryEvents, dt \in FrameTimes : Tick(ev, dt)
  \/ \E ev \in GalleryEvents : tw_progress > 0 /\ Tick(ev, BackwardTime)

SpecClock == InitClock /\ [][NextClock]_vars

\* ------------------------------------------------------------------------
\* The ScreenShake on its own: any sequence of start and update; calls holds
\* the operation just made
\* ------------------------------------------------------------------------
ShakeDurations == 0..MaxShake

ShakeIntensities == {0, MaxShake}

\* elapsed times of one update, in tenths of a second
ShakeTimes == 0..MaxDt

InitShake == Holds(Constructed)

ShakeStart(duration, intensity, infinite) ==
  Install([State EXCEPT !.shake = ScreenShake_start(@, duration, intensity, infinite),
                        !.calls = << <<"start", "ScreenShake", 0>> >>])

ShakeUpdate(dt) ==
  Install([State EXCEPT !.shake = ScreenShake_update(@, dt),
                        !.calls = << <<"update", "ScreenShake", 0>> >>])

NextShake ==
  \/ \E duration \in ShakeDurations, intensity \in ShakeIntensities, infinite \in BOOLEAN :
       ShakeStart(duration, intensity, infinite)
  \/ \E dt \in ShakeTimes : ShakeUpdate(dt)

SpecShake == InitShake /\ [][NextShake]_vars

\* ------------------------------------------------------------------------
\* The Typewriter on its own: any sequence of update, skip and reset
\* ------------------------------------------------------------------------
TextNine == SubSeq(TextLong, 1, 9)

TypewriterTexts == {TextEmpty, TextShort, TextNine, TextLong}

\* the speed setting of the settings screen runs from 0 to twice the midpoint
SpeedSettings == {0, speed_midpoint \div 5, speed_midpoint \div 2, speed_midpoint, 2 * speed_midpoint}

\* elapsed times of one update, in tenths of a second
TypewriterTimes == 0..MaxDt

Drifts == {0 - 1, 0, 1}

\* Typewriter(full_text, cps_scale)
InitTypewriter == \E text \in TypewriterTexts : Holds([Constructed EXCEPT !.tw_full_text = text])

\* tw_accumulated is the exact sum of dt * base_cps * scale since the last
\* reset, kept up to the length of the text
TypewriterUpdate(speed, dt, drift) ==
  Install([Typewriter_update(State, speed, dt, drift) EXCEPT
             !.tw_accumulated = Min(TwLen(State), tw_accumulated + base_cps * speed * dt)])

TypewriterSkip == Install(TwSkip(State))

TypewriterReset(text) == Install([TwReset(State, text) EXCEPT !.tw_accumulated = 0])

TypewriterResetNone == Install([TwResetNone(State) EXCEPT !.tw_accumulated = 0])

NextTypewriter ==
  \/ \E speed \in SpeedSettings, dt \in TypewriterTimes, drift \in Drifts :
       TypewriterUpdate(speed, dt, drift)
  \/ TypewriterSkip
  \/ \E text \in TypewriterTexts : TypewriterReset(text)
  \/ TypewriterResetNone

SpecTypewriter == InitTypewriter /\ [][NextTypewriter]_vars

\* ------------------------------------------------------------------------
\* Observations used by the properties
\* ------------------------------------------------------------------------
PromptCount(stack) == Cardinality({i \in 1..Len(stack) : stack[i].type = "PromptScene"})

\* the engine is alive: no exception has ended the program and its scene is stacked
Running(s) == Ok(s) /\ DialogueOnStack(s.scene_stack)

ScriptFinished(s) == s.curr_step_idx >= Len(Steps(s))

\* the engine stands on an action of the given kind
OnAction(s, ty) ==
  /\ Running(s)
  /\ ~ScriptFinished(s)
  /\ s.curr_action_idx < Len(Actions(s))
  /\ Actions(s)[s.curr_action_idx + 1].type = ty

Applied(s) == s.last_action_idx = s.curr_action_idx

SamePosition ==
  /\ scene_id' = scene_id
  /\ curr_step_idx' = curr_step_idx
  /\ curr_action_idx' = curr_action_idx

RECURSIVE FlattenSteps(_, _)
FlattenSteps(steps, n) == IF n = 0 THEN << >> ELSE FlattenSteps(steps, n - 1) \o steps[n].actions

\* the actions the engine has applied since the scene was entered, in order
AppliedActions(s) ==
  LET done == FlattenSteps(Steps(s), Min(s.curr_step_idx, Len(Steps(s))))
  IN IF ScriptFinished(s) THEN done
     ELSE done \o SubSeq(Actions(s), 1, s.curr_action_idx + (IF Applied(s) THEN 1 ELSE 0))

\* ------------------------------------------------------------------------
\* Properties
\* ------------------------------------------------------------------------
\* every scene that was stacked before the frame is still stacked after it
StackKept ==
  /\ Len(scene_stack') >= Len(scene_stack)
  /\ \A i \in 1..Len(scene_stack) : scene_stack'[i].type = scene_stack[i].type

\* C1: once a prompt action has pushed its PromptScene, the engine stays on
\* that prompt in every frame in which the PromptScene is still on the stack,
\* whatever input arrives and whether auto mode is on or off.
C1_PromptHoldsWhileOpen ==
  [][ (/\ OnAction(State, "prompt")
       /\ Applied(State)
       /\ PromptCount(scene_stack) > 0
       /\ StackKept)
      => SamePosition ]_vars

\* frames that carry no continue input: no SPACE/RETURN key-down, no click
QuietEvents ==
  {ev \in CoreEvents : K_SPACE \notin ev.key_down /\ K_RETURN \notin ev.key_down
                       /\ 1 \notin ev.mouse_down}

\* C2: while the engine stands on a show_text and no continue request is
\* pending or received (no continue key or click, auto and skip mode off, no
\* awaited overlay dismissed), an advance call on its own and a whole frame
\* both leave curr_step_idx and curr_action_idx unchanged, whether or not the
\* reveal has finished.
C2_ShowTextHoldsWithoutContinue ==
  [][ (OnAction(State, "show_text") /\ ~continue_dialogue /\ ~skip_mode)
      => \/ SamePosition
         \/ /\ ~AdvanceCall
            /\ \/ auto_mode
               \/ \A ev \in QuietEvents, dt \in FrameTimes :
                    ~((awaiting_overlays = << >> \/ K_ESCAPE \notin ev.key_down)
                      /\ Tick(ev, dt)) ]_vars

\* the engine stands on an applied show_text later in a step, its reveal
\* finished, with no continue request pending and auto and skip mode off
C2_Witness ==
  /\ OnAction(State, "show_text")
  /\ Applied(State)
  /\ curr_action_idx > 0
  /\ Len(tw_full_text) > 0
  /\ is_finished(State)
  /\ ~continue_dialogue /\ ~auto_mode /\ ~skip_mode

\* the terminal state is a fixed point of the advance call under any flags
C3_AdvanceIsIdentity ==
  (Running(State) /\ ScriptFinished(State)) =>
     \A c \in BOOLEAN, k \in BOOLEAN, a \in BOOLEAN :
        LET x == [State EXCEPT !.continue_dialogue = c, !.skip_mode = k, !.auto_mode = a]
        IN _advance_dialogue(x) = x

\* C3: once curr_step_idx equals the number of steps, every further advance
\* call, under any continue/skip/auto flags, changes nothing (position,
\* last-applied marker, character maps, history, scene stack), and no frame
\* moves the position or the marker again.
C3_TerminalStateIsIdempotent ==
  /\ []C3_AdvanceIsIdentity
  /\ [][ (Running(State) /\ ScriptFinished(State))
         => (SamePosition /\ last_action_idx' = last_action_idx) ]_vars

\* the script has ended and a continue request has arrived since
C3_Witness ==
  /\ Running(State)
  /\ ScriptFinished(State)
  /\ continue_dialogue
  /\ Len(dialogue_history) > 0

StepKinds(s) == [i \in 1..Len(Actions(s)) |-> Actions(s)[i].type]

\* frames whose only input is a left click
ClickEvents == {ev \in CoreEvents : 1 \in ev.mouse_down /\ ev.key_down = {}}

\* C4: skip mode is switched on (a click on the skip button) while the engine
\* stands at the start of a step [show_text, show_character, prompt,
\* show_text]; the advance call of that frame applies the show_text with its
\* reveal completed and the show_character, halts on the prompt at index 2
\* with the trailing show_text not applied, and has cleared skip mode when it
\* returns.
C4_SkipHaltsAtPromptAndClears ==
  [][ \A ev \in ClickEvents, dt \in FrameTimes :
        (/\ Running(State) /\ ~ScriptFinished(State)
         /\ StepKinds(State) = <<"show_text", "show_character", "prompt", "show_text">>
         /\ curr_action_idx = 0
         /\ hovered = "skip" /\ ~hide_mode /\ ~skip_mode
         /\ ~auto_mode /\ ~continue_dialogue
         /\ Len(dialogue_history) > 0
         /\ Tick(ev, dt))
        => /\ curr_step_idx' = curr_step_idx
           /\ curr_action_idx' = 2
           /\ tw_full_text' = Actions(State)[1].args.text
           /\ tw_progress' = ProgressUnit * Len(tw_full_text')
           /\ "alice" \in DOMAIN characters'.pos
           /\ characters'.pos["alice"] = _relative_scale_to_pos(0, 0)
           /\ PromptCount(scene_stack') = 1
           /\ ~skip_mode' ]_vars

\* frames that resolve an open prompt: RETURN alone, or a click on an option
ResolveEvents ==
  {ev \in CoreEvents :
     /\ K_ESCAPE \notin ev.key_down
     /\ (K_RETURN \in ev.key_down) # (1 \in ev.mouse_down /\ OptionHit(ev.mouse_pos, 2) >= 0)
     /\ (1 \in ev.mouse_down => OptionHit(ev.mouse_pos, 2) >= 0)}

\* the option a resolving frame chooses on the prompt at the top of the stack
ChosenOption(ev) ==
  IF 1 \in ev.mouse_down THEN OptionHit(ev.mouse_pos, 2)
  ELSE scene_stack[Len(scene_stack)].selected

\* C5: a frame that resolves the open PromptScene by choosing option i for
\* flag key k leaves g_flags[k] = option_flags[i] with the PromptScene popped,
\* and the advance call of that frame moves the engine on to what follows the
\* prompt without pushing a PromptScene again for the same visit.
C5_PromptResolutionWritesFlagAndResumes ==
  [][ (/\ OnAction(State, "prompt") /\ Applied(State)
       /\ Len(scene_stack) = 2
       /\ scene_stack[2].type = "PromptScene") =>
      \A ev \in ResolveEvents, dt \in FrameTimes :
        Tick(ev, dt)
        => LET P == scene_stack[2]
           IN /\ P.flag_key \in DOMAIN g_flags'
              /\ g_flags'[P.flag_key] = P.option_flags[ChosenOption(ev) + 1]
              /\ PromptCount(scene_stack') = 0
              /\ error' = NoError =>
                   /\ ~SamePosition
                   /\ (scene_id' = scene_id /\ curr_step_idx' = curr_step_idx)
                        => curr_action_idx' > curr_action_idx ]_vars

\* the second option of the first prompt was chosen and the host step resumed
C5_Witness ==
  /\ Running(State)
  /\ scene_id = "intro"
  /\ "chapter1_choice" \in DOMAIN g_flags
  /\ g_flags["chapter1_choice"] = "declined"
  /\ curr_step_idx = 0 /\ curr_action_idx = 3
  /\ PromptCount(scene_stack) = 0
  /\ Len(dialogue_history) = 2

CharacterMaps == {"sprite", "pos", "animator", "is_highlighted"}

\* C6: in every reachable state the four character maps sprite, pos, animator
\* and is_highlighted have the same key set.
C6_CharacterMapsInLockStep ==
  Running(State) =>
    \A m \in CharacterMaps, n \in CharacterMaps :
       DOMAIN characters[m] = DOMAIN characters[n]

\* the characters on stage after a sequence of applied actions: shown and not
\* hidden since
RECURSIVE OnStage(_, _)
OnStage(acts, roster) ==
  IF Len(acts) = 0 THEN roster
  ELSE LET prev == OnStage(SubSeq(acts, 1, Len(acts) - 1), roster)
           a == acts[Len(acts)]
       IN CASE a.type = "show_character" -> prev \cup {a.args.character_id}
            [] a.type = "hide_character" -> prev \ {a.args.character_id}
            [] OTHER -> prev

\* some applied move_character, set_highlight or hide_character names a
\* character that an earlier hide_character took off the stage
RECURSIVE HiddenReference(_, _, _)
HiddenReference(acts, roster, n) ==
  IF n = 0 THEN FALSE
  ELSE \/ HiddenReference(acts, roster, n - 1)
       \/ /\ acts[n].type \in {"move_character", "set_highlight", "hide_character"}
          /\ acts[n].args.character_id \in roster
          /\ acts[n].args.character_id \notin OnStage(SubSeq(acts, 1, n - 1), roster)

\* C7: after hide_character(c), a later move_character, set_highlight or
\* hide_character of c with no show_character(c) in between is never applied:
\* the engine raises an error instead, so no running engine has such an
\* action among its applied actions.
C7_HiddenCharacterReferenceRaises ==
  Running(State) =>
    ~HiddenReference(AppliedActions(State), RosterIds(get_scene_data(scene_id)),
                     Len(AppliedActions(State)))

\* the scene of the first package whose required flags all hold, or None
RECURSIVE FirstMatch(_, _, _)
FirstMatch(packages, g, j) ==
  IF j > Len(packages) THEN None
  ELSE IF RequiredFlagsHold(g, packages[j].required_g_flags) THEN packages[j].scene_id
  ELSE FirstMatch(packages, g, j + 1)

\* the applied actions grew by the actions numbered from..to of the new list
Extends(old, new) == Len(new) > Len(old) /\ SubSeq(new, 1, Len(old)) = old

\* C8: change_dialogue_scene switches to the scene of the first package whose
\* required flags all hold, also when an earlier package does not match, and
\* the step proceeds only when no package matches; so in a frame that leaves
\* the flag map alone and in which the engine goes on in the same scene past
\* a change_dialogue_scene, no package of that action matches the flag map.
C8_FirstMatchingPackageWins ==
  [][ (/\ Running(State) /\ Running(State')
       /\ g_flags' = g_flags
       /\ scene_id' = scene_id
       /\ pending_switch' = None
       /\ Extends(AppliedActions(State), AppliedActions(State')))
      => \A n \in (Len(AppliedActions(State)) + 1)..Len(AppliedActions(State')) :
            AppliedActions(State')[n].type = "change_dialogue_scene"
            => FirstMatch(AppliedActions(State')[n].args, g_flags, 1) = None ]_vars

\* the index bounds of the engine's position
C9_IndexBounds ==
  Running(State) =>
    /\ 0 <= curr_step_idx /\ curr_step_idx <= Len(Steps(State))
    /\ curr_step_idx < Len(Steps(State)) =>
         (0 <= curr_action_idx /\ curr_action_idx <= Len(Actions(State)))

\* the engine as the end of a step leaves it, before the next step is tried
StepFinishedFrom(s) ==
  [s EXCEPT !.curr_step_idx = curr_step_idx + 1, !.curr_action_idx = 0,
            !.last_action_idx = 0 - 1, !.continue_dialogue = FALSE]

\* C9: at every frame boundary 0 <= curr_step_idx <= number of steps and,
\* inside the script, 0 <= curr_action_idx <= number of actions of the step;
\* an advance call that finishes a step increases curr_step_idx by exactly
\* one and resets curr_action_idx to 0, the last-applied marker to -1 and the
\* continue flag to false before the next step is tried, and no frame moves
\* curr_step_idx otherwise within a scene.
C9_IndexBoundsAndStepFinish ==
  /\ []C9_IndexBounds
  /\ [][ (Running(State) /\ scene_id' = scene_id /\ curr_step_idx' # curr_step_idx)
         => /\ curr_step_idx' = curr_step_idx + 1
            /\ error' = NoError => ~continue_dialogue'
            /\ AdvanceCall =>
                 LET f == StepFinishedFrom(_execute_step(State).st)
                 IN IF f.curr_step_idx < Len(Steps(f))
                    THEN State' = _execute_step(f).st
                    ELSE State' = f ]_vars

\* a step has just been finished and the next one, which is empty, not yet
C9_Witness ==
  /\ Running(State)
  /\ scene_id = "branch"
  /\ curr_step_idx = 1
  /\ curr_action_idx = 0
  /\ last_action_idx = 0 - 1
  /\ ~continue_dialogue

\* the applied show_text the engine stands on shows its one effect, and no more
\* PromptScenes are stacked than prompt actions have been applied
C10_EffectPresentOnce ==
  /\ (OnAction(State, "show_text") /\ Applied(State)) =>
        /\ tw_full_text = Actions(State)[curr_action_idx + 1].args.text
        /\ Len(dialogue_history) > 0
        /\ dialogue_history[Len(dialogue_history)][2] = tw_full_text
  /\ Running(State) =>
        PromptCount(scene_stack) <=
          Cardinality({n \in 1..Len(AppliedActions(State)) : AppliedActions(State)[n].type = "prompt"})

\* C10: in normal mode each action's effect is applied once per visit: over
\* any frame in which the engine stays blocked on the same applied show_text
\* or prompt (the first frame after enter included), nothing is appended to
\* the history, the reveal is not reset and no further PromptScene is pushed.
C10_AppliedOncePerVisit ==
  /\ []C10_EffectPresentOnce
  /\ [][ (/\ Running(State) /\ Running(State')
          /\ (OnAction(State, "show_text") \/ OnAction(State, "prompt"))
          /\ Applied(State)
          /\ SamePosition
          /\ ~skip_mode /\ ~skip_mode')
         => /\ dialogue_history' = dialogue_history
            /\ tw_full_text' = tw_full_text
            /\ tw_progress' >= tw_progress
            /\ last_action_idx' = last_action_idx
            /\ PromptCount(scene_stack') <= PromptCount(scene_stack) ]_vars

\* the engine has stayed blocked on its open prompt over a frame in auto mode
C10_Witness ==
  /\ OnAction(State, "prompt") /\ Applied(State)
  /\ scene_id = "intro"
  /\ auto_mode /\ ~skip_mode
  /\ PromptCount(scene_stack) = 1
  /\ Len(dialogue_history) = 1
  /\ hovered = "none"

\* C11: an advance call returns with the engine still positioned on an action
\* only if that action is a show_text or a prompt; every other kind has been
\* applied and passed within the call, in normal and in skip mode.
C11_OnlyShowTextAndPromptHold ==
  (Running(State) /\ ~ScriptFinished(State) /\ curr_action_idx < Len(Actions(State)))
  => Actions(State)[curr_action_idx + 1].type \in {"show_text", "prompt"}

\* C12: when an advance call finishes a step and a next step exists, that
\* step's actions are executed within the same call, so the call does not
\* return with the engine resting on a next step that is empty or whose
\* actions have all been passed.
C12_NextStepRunsInSameCall ==
  [][ (/\ Running(State) /\ Running(State')
       /\ scene_id' = scene_id
       /\ curr_step_idx' > curr_step_idx
       /\ ~ScriptFinished(State'))
      => curr_action_idx' < Len(Actions(State')) ]_vars

\* ------------------------------------------------------------------------
\* The hooks of one tick, read from the log of the tick
\* ------------------------------------------------------------------------
Hooks(log, hook) == {k \in 1..Len(log) : log[k][1] = hook}

\* position in the log at which the pending switch was applied, 0 if it was not
SwitchAt(log) ==
  IF Hooks(log, "apply_switch") = {} THEN 0
  ELSE CHOOSE k \in Hooks(log, "apply_switch") : TRUE

\* the scenes drawn in the tick, bottom first: the stack the switch found
Drawn(log) == SelectSeq(log, LAMBDA e : e[1] = "draw")

\* the scenes the switch popped: one leave per drawn scene, the top first
PoppedTopFirst(log) ==
  LET k == SwitchAt(log)
      n == Len(Drawn(log))
  IN /\ Len(log) >= k + n
     /\ \A j \in 1..n : log[k + j] = <<"leave", Drawn(log)[n + 1 - j][2], n + 1 - j>>
     /\ Cardinality({j \in Hooks(log, "leave") : j > k}) = n

\* the requested scene entered once, as the only scene; what follows in the
\* log is the enter of overlays that its own enter hook pushed
EnteredOnce(log) ==
  LET k == SwitchAt(log)
      n == Len(Drawn(log))
  IN /\ Len(log) > k + n
     /\ log[k + n + 1] = <<"enter", "DialogueScene", 1>>
     /\ \A j \in (k + n + 2)..Len(log) :
          log[j] = <<"enter", "PromptScene", j - (k + n)>>

is_exclusive(scene) == scene.type \in {"PromptScene", "DialogueLog", "SaveSelector", "DialogueScene"}

\* C14: with an exclusive scene on top of the stack, no scene beneath it has
\* its handle hook invoked in that tick: the handle calls of a tick all go to
\* the scene that was on top when the dispatch began.
C14_ExclusiveTopStopsInput ==
  (Len(calls) > 0 /\ calls[1][1] = "tick") =>
    \A k \in Hooks(calls, "handle") :
      is_exclusive([type |-> calls[k][2]]) => calls[k][3] = calls[1][3]

\* the phase of SceneManager.update a logged call belongs to; enter and leave
\* are called from within a phase
Phase(e) ==
  CASE e[1] = "handle" -> 1
    [] e[1] = "update" -> 2
    [] e[1] = "draw" -> 3
    [] e[1] = "apply_switch" -> 4
    [] OTHER -> 0

PhaseCalls(log, hook) == SelectSeq(log, LAMBDA e : e[1] = hook)

\* the calls of the four phases appear in the order of the phases
InPhaseOrder(log) ==
  \A j, k \in 1..Len(log) :
    (j < k /\ Phase(log[j]) > 0 /\ Phase(log[k]) > 0) => Phase(log[j]) <= Phase(log[k])

\* positions top, top - 1, ... without a gap
TopDown(seq, top) == \A j \in 1..Len(seq) : seq[j][3] = top + 1 - j

\* positions 1, 2, ... without a gap
BottomUp(seq) == \A j \in 1..Len(seq) : seq[j][3] = j

\* a leave hook was called before the first update of the tick
PoppedWhileDispatching(log) ==
  \E j \in Hooks(log, "leave") : \A k \in Hooks(log, "update") : j < k

\* the log is that of a tick, not that of the first switch
TickLogged == Len(calls) > 0 /\ calls[1][1] = "tick"

\* C15: within one tick the input is dispatched top-down and stops at the first
\* scene whose handle reports it consumed, then every stacked scene is updated
\* bottom-to-top, then every stacked scene is drawn bottom-to-top, then the
\* pending switch is applied; no scene is updated before the dispatch has ended
\* and no switch is applied before the drawing has ended.
C15_PhasesInOrder ==
  TickLogged =>
    LET found == calls[1][3]
        handles == PhaseCalls(calls, "handle")
        updates == PhaseCalls(calls, "update")
        draws == PhaseCalls(calls, "draw")
    IN /\ InPhaseOrder(calls)
       /\ TopDown(handles, found)
       /\ Len(handles) <= found
       /\ \A j \in 1..Len(handles) : HandleReports(handles[j][2]) => j = Len(handles)
       /\ (Len(handles) < found /\ error = NoError) =>
             \/ HandleReports(handles[Len(handles)][2])
             \/ PoppedWhileDispatching(calls)
       /\ BottomUp(updates)
       /\ BottomUp(draws)
       /\ error = NoError =>
            /\ Len(updates) = Len(draws)
            /\ \A j \in 1..Len(draws) : draws[j][2] = updates[j][2]
            /\ SwitchAt(calls) = 0 =>
                 /\ Len(draws) = Len(scene_stack)
                 /\ \A j \in 1..Len(draws) : draws[j][2] = scene_stack[j].type
            /\ SwitchAt(calls) > 0 <=> Cardinality(Hooks(calls, "apply_switch")) = 1

\* a tick that dispatched input to two stacked scenes, updated and drew both
\* and then applied a pending switch
C15_Witness ==
  /\ error = NoError
  /\ SwitchAt(calls) > 0
  /\ Len(PhaseCalls(calls, "handle")) = 2
  /\ Len(PhaseCalls(calls, "update")) = 2
  /\ Len(PhaseCalls(calls, "draw")) = 2

\* the scenes the program pushes
Pushable ==
  {DialogueSceneObj, DialogueLogObj, TitlescreenObj, SettingsScreenObj,
   PromptSceneObj("mood", <<"accepted", "declined">>)}

\* stack_push applied to state s: the scene is the new top, its enter hook is
\* the one call added, nothing else differs
PushedOnce(s, scene) ==
  LET p == stack_push(s, scene)
  IN /\ p.scene_stack = Append(s.scene_stack, scene)
     /\ p.calls = Append(s.calls, <<"enter", scene.type, Len(s.scene_stack) + 1>>)
     /\ [p EXCEPT !.scene_stack = s.scene_stack, !.calls = s.calls] = s

\* stack_pop applied to state s: the top is gone and its leave hook is the one
\* call added (the hook of a SettingsScreen asks for the language reload); on
\* an empty stack nothing at all differs
PoppedOnce(s) ==
  LET p == stack_pop(s)
      n == Len(s.scene_stack)
  IN IF n = 0 THEN p = s
     ELSE /\ p.scene_stack = SubSeq(s.scene_stack, 1, n - 1)
          /\ p.calls = Append(s.calls, <<"leave", s.scene_stack[n].type, n>>)
          /\ [p EXCEPT !.scene_stack = s.scene_stack, !.calls = s.calls,
                       !.reloading_language_data = s.reloading_language_data] = s

\* C16: push appends the scene as the new top and calls its enter hook exactly
\* once; pop removes the top and calls its leave hook exactly once; pop on an
\* empty stack changes nothing and calls no hook. In the log of a tick the
\* height of the stack has moved by one per enter and per leave.
C16_PushAndPopCallTheirHook ==
  /\ \A scene \in Pushable : PushedOnce(State, scene)
  /\ PoppedOnce(State)
  /\ PoppedOnce(stack_pop(State))
  /\ TickLogged =>
       Len(scene_stack) =
         calls[1][3] + Cardinality(Hooks(calls, "enter")) - Cardinality(Hooks(calls, "leave"))

\* a tick whose handle calls popped both stacked scenes, so that the stack is
\* empty and a further pop finds nothing
C16_Witness ==
  /\ TickLogged
  /\ calls[1][3] = 2
  /\ Cardinality(Hooks(calls, "leave")) = 2
  /\ Len(scene_stack) = 0
  /\ stack_pop(State) = State

\* the flag keys whose entry differs between two flag maps
ChangedFlags(before, after) ==
  {k \in (DOMAIN before) \cup (DOMAIN after) :
     DictGet(before, k, None) # DictGet(after, k, None)}

\* a PromptScene of the stack for flag key k left the stack during the input
\* dispatch of the tick logged in log, and v is one of its option flags
ResolvedBy(stack, log, k, v) ==
  \E i \in 1..Len(stack) :
    /\ stack[i].type = "PromptScene"
    /\ stack[i].flag_key = k
    /\ \E n \in 1..Len(stack[i].option_flags) : stack[i].option_flags[n] = v
    /\ \E j \in Hooks(log, "leave") :
         /\ log[j] = <<"leave", "PromptScene", i>>
         /\ \A u \in Hooks(log, "update") : j < u

\* C17: flags are written only by a PromptScene at its own resolution; no
\* engine action (change_dialogue_scene included) and no scene switch writes,
\* changes or removes a flag, so a flag keeps its value across script switches.
C17_FlagsWrittenOnlyByPrompts ==
  [][ /\ DOMAIN g_flags \subseteq DOMAIN g_flags'
      /\ \A k \in ChangedFlags(g_flags, g_flags') :
           ResolvedBy(scene_stack, calls', k, g_flags'[k])
      /\ DialogueOnStack(scene_stack) => _advance_dialogue(State).g_flags = g_flags ]_vars

\* a script switch has been applied in the last tick and the flag written by
\* the prompt of the scene before is still there
C17_Witness ==
  /\ SwitchAt(calls) > 0
  /\ Len(Drawn(calls)) >= 1
  /\ scene_id = "stage"
  /\ DictGet(g_flags, "chapter1_choice", None) = "accepted"

\* the revealed count of state a is not above that of state b
CountAtMost(a, b) ==
  \/ a.tw_progress < b.tw_progress
  \/ a.tw_progress = b.tw_progress /\ a.tw_drift <= b.tw_drift

\* the revealed count is within [0, len(text)]; finished means count >= len;
\* skip finishes from anywhere; reset zeroes the count and replaces the text;
\* the visible text is full once the accumulated reveal has reached the length
C18_CountInvariant ==
  /\ tw_progress >= 0
  /\ tw_progress = 0 => tw_drift = 0
  /\ CountAtMost(State, [State EXCEPT !.tw_progress = TwLen(State), !.tw_drift = 0])
  /\ is_finished(State) <=>
       CountAtMost([State EXCEPT !.tw_progress = TwLen(State), !.tw_drift = 0], State)
  /\ is_finished(TwSkip(State))
  /\ visible_text(TwSkip(State)) = tw_full_text
  /\ \A text \in TypewriterTexts :
       /\ TwReset(State, text).tw_progress = 0
       /\ TwReset(State, text).tw_full_text = text
       /\ visible_text(TwReset(State, text)) = << >>
  /\ tw_accumulated >= TwLen(State) => visible_text(State) = tw_full_text

\* C18: under any sequence of update(dt >= 0), skip() and reset(text) the
\* revealed count stays within [0, len(text)] and never decreases between
\* resets; is_finished holds exactly when the count is at least len(text);
\* skip() makes it finished whatever time has elapsed; reset(text) sets the
\* count to 0 and replaces the text; and once the accumulated
\* dt * base_cps * scale has reached len(text) the visible text is the full text.
C18_TypewriterContract ==
  /\ []C18_CountInvariant
  /\ [][ (TypewriterSkip \/ \E speed \in SpeedSettings, dt \in TypewriterTimes, drift \in Drifts :
                              TypewriterUpdate(speed, dt, drift))
         => (CountAtMost(State, State') /\ tw_full_text' = tw_full_text) ]_vars

\* updates alone have accumulated the length of a nine-character text, the
\* float sum has stayed a round-off short of it, and the visible text is full
C18_Witness ==
  /\ tw_full_text = TextNine
  /\ tw_accumulated >= TwLen(State)
  /\ tw_drift < 0
  /\ ~is_finished(State)
  /\ visible_text(State) = TextNine

\* the animators the engine holds
Animators == {characters.animator[k] : k \in DOMAIN characters.animator} \ {NoAnimator}

\* C19: for each of the six easing kinds the current point of an animator is
\* the start point before any time has elapsed and the end point once the
\* elapsed time has reached the duration; the elapsed time stays within the
\* duration and is_finished holds exactly from there on; and the position of
\* the character is the target of the move when the engine is about to clear
\* the finished animator.
C19_EasingReachesBothEnds ==
  \A k \in DOMAIN characters.animator :
    LET a == characters.animator[k]
    IN a # NoAnimator =>
         /\ a.kind \in EasingKinds
         /\ 0 <= a.elapsed /\ a.elapsed <= a.duration
         /\ AnimatorFinished(a) <=> a.elapsed >= a.duration
         /\ a.elapsed = 0 => AnimatorCurr(a) = a.start
         /\ a.elapsed >= a.duration =>
              /\ AnimatorCurr(a) = a.end
              /\ k \in DOMAIN characters.pos => characters.pos[k] = a.end

\* the backgrounds and fade durations of the set_background actions tried on
\* every reachable state
Backgrounds == {None, "day", "night", "dusk"}

FadeDurations == {DtStep * k : k \in 1..(MaxDt + 1)}

\* the number of set_background actions the engine has applied so far
BackgroundsSet(s) ==
  Cardinality({n \in 1..Len(AppliedActions(s)) : AppliedActions(s)[n].type = "set_background"})

\* set_background without a transition swaps at once and leaves no record;
\* with a fade of duration d > 0 it leaves the background and records the
\* fade from it to the new one, elapsed 0
C20_ApplyLaw ==
  background # Unset =>
    \A f \in Backgrounds :
      /\ _apply_background(State, f, NoTransition) =
           [State EXCEPT !.background = f, !.bg_transition = NoFade]
      /\ \A d \in FadeDurations :
           _apply_background(State, f, Transition("fade", d)) =
             [State EXCEPT !.bg_transition =
                [type |-> "fade", duration |-> d, elapsed |-> 0, from |-> background, to |-> f]]

\* an update of a recorded fade adds the frame time to elapsed; the first one
\* that brings it to the duration commits the target and clears the record
C20_UpdateLaw ==
  bg_transition # NoFade =>
    \A dt \in FrameTimes :
      LET u == _update_background_transition(State, dt)
      IN IF bg_transition.elapsed + dt >= bg_transition.duration
         THEN u = [State EXCEPT !.background = bg_transition.to, !.bg_transition = NoFade]
         ELSE /\ u = [State EXCEPT !.bg_transition.elapsed = bg_transition.elapsed + dt]
              /\ u.bg_transition.elapsed >= bg_transition.elapsed

\* while the record exists the committed background is the one the fade
\* started from, and the recorded time is short of the duration
C20_RecordInvariant ==
  bg_transition # NoFade =>
    /\ bg_transition.type = "fade"
    /\ bg_transition.duration > 0
    /\ bg_transition.elapsed >= 0
    /\ bg_transition.elapsed < bg_transition.duration
    /\ bg_transition.from = background
    /\ background # Unset

\* C20: set_background with no transition swaps the background immediately and
\* leaves no fade record; with a fade of duration d > 0 it creates a record
\* (from = previous background, to = new one, elapsed = 0) whose elapsed never
\* decreases across updates; in the first update where elapsed >= d the
\* background becomes the new one and the record is cleared; while the record
\* exists the committed background is still the previous one.
C20_BackgroundFade ==
  /\ [](C20_ApplyLaw /\ C20_UpdateLaw /\ C20_RecordInvariant)
  /\ [][ (bg_transition # NoFade /\ scene_id' = scene_id
          /\ BackgroundsSet(State') = BackgroundsSet(State)) =>
            \/ /\ bg_transition' # NoFade
               /\ bg_transition'.elapsed >= bg_transition.elapsed
               /\ [bg_transition' EXCEPT !.elapsed = 0] = [bg_transition EXCEPT !.elapsed = 0]
               /\ background' = background
            \/ /\ bg_transition' = NoFade
               /\ background' = bg_transition.to ]_vars

\* the fade from "day" to "night" has run its duration over more than one
\* frame and was committed; no record is left
C20_Witness ==
  /\ scene_id = "gallery"
  /\ background = "night"
  /\ bg_transition = NoFade
  /\ curr_step_idx = 0
  /\ BackgroundsSet(State) = 2

\* ------------------------------------------------------------------------
\* C21: content errors
\* ------------------------------------------------------------------------
\* the closed vocabulary of action kinds
ActionKinds ==
  {"show_text", "set_background", "play_bgm", "play_sfx", "show_character", "move_character",
   "hide_character", "set_highlight", "screen_shake", "prompt", "change_dialogue_scene"}

UnknownKind(action) == action.type \notin ActionKinds

UnknownEasing(action) ==
  action.type = "move_character" /\ action.args.easing \notin EasingKinds

\* the action names a character (an empty highlight target names nobody)
\* that the roster of the script does not hold
UnknownCharacter(data, action) ==
  /\ action.type \in {"show_character", "move_character", "hide_character", "set_highlight"}
  /\ action.args.character_id # ""
  /\ action.args.character_id \notin RosterIds(data)

Malformed(data, action) ==
  UnknownKind(action) \/ UnknownEasing(action) \/ UnknownCharacter(data, action)

\* the script positions the engine has left behind since the scene was entered
ScriptPositions(s) ==
  UNION {{<<i, j>> : j \in 0..(Len(Steps(s)[i + 1].actions) - 1)} : i \in 0..(Len(Steps(s)) - 1)}

PassedPositions(s) ==
  {p \in ScriptPositions(s) :
     \/ p[1] < s.curr_step_idx
     \/ p[1] = s.curr_step_idx /\ p[2] < s.curr_action_idx}

ActionAt(s, p) == Steps(s)[p[1] + 1].actions[p[2] + 1]

\* C21: a malformed action (a kind outside the vocabulary, a move with an
\* easing name that is none of the six, a character id that is not in the
\* roster) is never passed: the engine never stands beyond one.
C21_MalformedActionIsNotPassed ==
  DialogueOnStack(scene_stack) =>
    \A p \in PassedPositions(State) : ~Malformed(get_scene_data(scene_id), ActionAt(State, p))

\* the three kinds of content error on their own
C21_UnknownKindIsNotPassed ==
  DialogueOnStack(scene_stack) =>
    \A p \in PassedPositions(State) : ~UnknownKind(ActionAt(State, p))

C21_UnknownEasingIsNotPassed ==
  DialogueOnStack(scene_stack) =>
    \A p \in PassedPositions(State) : ~UnknownEasing(ActionAt(State, p))

C21_UnknownCharacterIsNotPassed ==
  DialogueOnStack(scene_stack) =>
    \A p \in PassedPositions(State) :
       ~UnknownCharacter(get_scene_data(scene_id), ActionAt(State, p))

\* the one content error the engine does raise: hide_character pops an id
\* that the sprite map does not hold
C21_HideOfUnknownCharacterRaised ==
  /\ scene_id = "broken" /\ curr_step_idx = 3 /\ curr_action_idx = 0
  /\ error = "KeyError"

\* ------------------------------------------------------------------------
\* C22: a continue key and a click in one frame
\* ------------------------------------------------------------------------
\* frames that carry a continue key-down and a left click
DoubleEvents ==
  {ev \in CoreEvents : (K_SPACE \in ev.key_down \/ K_RETURN \in ev.key_down)
                       /\ 1 \in ev.mouse_down}

\* the same frame without the click
KeyOnly(ev) == [ev EXCEPT !.mouse_down = {}]

\* what a handle call did to the reveal and to the continue request
RevealCompleted(s, h) == ~is_finished(s) /\ is_finished(h)

ContinueRequested(s, h) == ~s.continue_dialogue /\ h.continue_dialogue

\* the blocking actions left behind between s and a later state u of the
\* same scene entry
BlockingPassed(s, u) ==
  {p \in PassedPositions(u) \ PassedPositions(s) :
     ActionAt(s, p).type \in {"show_text", "prompt"}}

\* the handle call on its own: at most one of the two effects, no move of the
\* script position, and nothing beyond what the key alone does
C22_HandleLaw ==
  \A ev \in DoubleEvents :
    (Running(State) /\ hovered \notin ButtonNames) =>
      LET h == DialogueScene_handle(State, ev)
          k == DialogueScene_handle(State, KeyOnly(ev))
      IN /\ Ok(h)
         /\ ~(RevealCompleted(State, h) /\ ContinueRequested(State, h))
         /\ h.curr_step_idx = curr_step_idx /\ h.curr_action_idx = curr_action_idx
         /\ h.tw_progress = k.tw_progress /\ h.tw_drift = k.tw_drift
         /\ h.continue_dialogue = k.continue_dialogue

\* the frame the handle call belongs to, in normal mode: the handle and update
\* phases pass at most one blocking action, and a scene entered at the end of
\* the frame has passed none
C22_FrameLaw ==
  \A ev \in DoubleEvents, dt \in FrameTimes :
    (Running(State) /\ hovered \notin ButtonNames /\ ~skip_mode) =>
      LET u == UpdateLoop(HandleLoop(ReloadPhase(BeginTick(State)), Len(scene_stack), ev), 1, dt)
          f == _apply_pending_switch(DrawLoop(u, 1))
      IN /\ Cardinality(BlockingPassed(State, u)) <= 1
         /\ (Ok(u) /\ u.pending_switch # None /\ Ok(f)) =>
               \A p \in PassedPositions(f) : ActionAt(f, p).type \notin {"show_text", "prompt"}

\* C22: one handle call that carries both a continue key-down and a left click
\* on no button has at most one continue effect, a completed reveal or a
\* continue request and never both, and the frame advances the script past at
\* most one blocking action.
C22_DoubleTriggerContinuesOnce == C22_HandleLaw /\ C22_FrameLaw

\* a frame with both triggers is possible on an unfinished reveal with the
\* press guard free: the key completes the reveal and the click adds nothing
C22_Witness ==
  /\ OnAction(State, "show_text")
  /\ ~is_finished(State) /\ ~last_pressed_continue /\ ~hide_mode /\ ~skip_mode
  /\ hovered \notin ButtonNames
  /\ \E ev \in DoubleEvents :
       LET h == DialogueScene_handle(State, ev)
       IN is_finished(h) /\ ~h.continue_dialogue /\ ~h.last_pressed_continue

\* ------------------------------------------------------------------------
\* C23: the auto-advance timer
\* ------------------------------------------------------------------------
\* frames without a key or a click, the pointer off the buttons
IdleEvents == {ev \in GalleryEvents : ev.key_down = {} /\ ev.mouse_down = {} /\ ev.mouse_pos = "none"}

\* the timer is accumulating: auto mode is on, the reveal has finished and no
\* continue request is pending
Accumulating(s) == s.auto_mode /\ is_finished(s) /\ ~s.continue_dialogue

C23_TimerIsNeverNegative == auto_advance_timer >= 0

\* an idle frame of negative elapsed time leaves an accumulating timer as it is
C23_NegativeTimeAddsZero ==
  [][ \A ev \in IdleEvents :
        (Accumulating(State) /\ OnAction(State, "show_text") /\ Tick(ev, BackwardTime))
        => auto_advance_timer' = auto_advance_timer ]_vars

\* C23: the auto-advance timer is never negative, and an update whose elapsed
\* time is negative adds zero to it: the timer does not decrease while it is
\* accumulating.
C23_AutoTimerFloorsNegativeTime ==
  []C23_TimerIsNeverNegative /\ C23_NegativeTimeAddsZero

\* ------------------------------------------------------------------------
\* C24: the run of skip mode
\* ------------------------------------------------------------------------
\* the actions before the position of s, in script order
ActionsBefore(s) ==
  IF ScriptFinished(s) THEN FlattenSteps(Steps(s), Len(Steps(s)))
  ELSE FlattenSteps(Steps(s), s.curr_step_idx) \o SubSeq(Actions(s), 1, s.curr_action_idx)

\* the actions the engine left behind between s and a later state u of the
\* same scene entry, in script order
PassedActions(s, u) ==
  SubSeq(ActionsBefore(u), Len(ActionsBefore(s)) + 1, Len(ActionsBefore(u)))

IsShowText(action) == action.type = "show_text"

\* the history entries of a sequence of actions
HistoryOf(actions) ==
  LET shown == SelectSeq(actions, IsShowText)
  IN [i \in 1..Len(shown) |-> <<shown[i].args.speaker_name, shown[i].args.text>>]

\* the state the handle and update phases of a frame leave, before the draw
\* phase and the pending switch
AfterUpdate(s, ev, dt) == UpdateLoop(HandleLoop(ReloadPhase(BeginTick(s)), Len(s.scene_stack), ev), 1, dt)

\* the engine is blocked on an applied show_text and the next click is on
\* the skip button
SkipClickable(s) ==
  /\ OnAction(s, "show_text") /\ Applied(s)
  /\ s.hovered = "skip" /\ ~s.hide_mode
  /\ Len(s.dialogue_history) > 0

\* where the run of skip mode stops: on a prompt it has applied, at the end
\* of a step or of the script, or right behind a prompt that it could pass at
\* once, skip mode cleared
SkipRunStopped(s, u) ==
  \/ /\ u.skip_mode
     /\ \/ ScriptFinished(u)
        \/ u.curr_action_idx >= Len(Actions(u))
        \/ OnAction(u, "prompt") /\ Applied(u) /\ PromptCount(u.scene_stack) > 0
  \/ /\ ~u.skip_mode
     /\ Len(PassedActions(s, u)) > 0
     /\ PassedActions(s, u)[Len(PassedActions(s, u))].type = "prompt"

\* C24: in the frame that switches skip mode on, every non-prompt action from
\* the show_text the engine stands on is applied and passed, whether or not
\* the reveal had finished or a continue request was present; each show_text
\* passed is in the history and the reveal of the last one is complete; the
\* run stops only at a prompt or at the end of a step, and no frame ends in
\* skip mode on any other action.
C24_SkipRunsToPromptOrStepEnd ==
  /\ (Running(State) /\ skip_mode /\ ~ScriptFinished(State)) =>
        (curr_action_idx >= Len(Actions(State)) \/ OnAction(State, "prompt"))
  /\ \A ev \in ClickEvents, dt \in FrameTimes :
    SkipClickable(State) =>
      LET u == AfterUpdate(State, ev, dt)
          passed == PassedActions(State, u)
      IN Ok(u) =>
           /\ SkipRunStopped(State, u)
           /\ Len(passed) > 0 /\ IsShowText(passed[1])
           /\ u.dialogue_history =
                SubSeq(dialogue_history, 1, Len(dialogue_history) - 1) \o HistoryOf(passed)
           /\ u.tw_full_text = HistoryOf(passed)[Len(HistoryOf(passed))][2]
           /\ is_finished(u)

\* a skip click on an unfinished reveal with no continue request, whose run
\* passes two show_text actions and a step boundary
C24_Witness ==
  /\ SkipClickable(State)
  /\ ~is_finished(State) /\ ~continue_dialogue
  /\ \E ev \in ClickEvents :
       LET u == AfterUpdate(State, ev, 0)
       IN /\ Ok(u)
          /\ Len(HistoryOf(PassedActions(State, u))) >= 2
          /\ u.curr_step_idx > curr_step_idx

\* ------------------------------------------------------------------------
\* C25: passing a blocking action in normal mode
\* ------------------------------------------------------------------------
\* the state of a frame after its handle phase
AfterHandle(s, ev) == HandleLoop(ReloadPhase(BeginTick(s)), Len(s.scene_stack), ev)

\* a fresh continue press: a continue key goes down, or the left button on
\* no button, with the press guard free and hide mode off
FreshPress(s, ev) ==
  /\ ~s.last_pressed_continue /\ ~s.hide_mode /\ s.hovered \notin ButtonNames
  /\ K_SPACE \in ev.key_down \/ K_RETURN \in ev.key_down \/ 1 \in ev.mouse_down

\* the advance call of a frame in normal mode passes at most one blocking
\* action, only with the reveal finished and the continue flag set, and
\* returns with the flag cleared
C25_PassLaw ==
  \A ev \in CoreEvents, dt \in FrameTimes :
    Running(State) =>
      LET h == AfterHandle(State, ev)
          b == BeforeAdvance(h, dt)
          u == _advance_dialogue(b)
      IN (Running(h) /\ ~b.skip_mode /\ Ok(u)) =>
           /\ Cardinality(BlockingPassed(b, u)) <= 1
           /\ BlockingPassed(b, u) # {} =>
                is_finished(b) /\ b.continue_dialogue /\ ~u.continue_dialogue

\* no input sets the flag while the reveal is unfinished, neither in the
\* handle call of the DialogueScene nor in the handle phase as a whole; a
\* fresh press that the DialogueScene receives completes the reveal
C25_PressLaw ==
  \A ev \in CoreEvents :
    (Running(State) /\ ~is_finished(State)) =>
      /\ AfterHandle(State, ev).continue_dialogue = continue_dialogue
      /\ DialogueScene_handle(State, ev).continue_dialogue = continue_dialogue
      /\ FreshPress(State, ev) => is_finished(DialogueScene_handle(State, ev))

\* C25: in normal mode a blocking action is passed only when the reveal has
\* finished and the continue flag is set, and passing it clears the flag, so
\* one continue request passes at most one blocking action; a continue press
\* on an unfinished reveal completes the reveal and does not set the flag.
C25_ContinuePassesOneBlockingAction == C25_PassLaw /\ C25_PressLaw

\* a state from which a frame in normal mode passes a blocking action, and
\* one whose unfinished reveal a fresh press completes
C25_Witness ==
  /\ OnAction(State, "show_text") /\ ~skip_mode
  /\ \E ev \in CoreEvents :
       LET h == AfterHandle(State, ev)
           b == BeforeAdvance(h, 0)
       IN /\ Running(h) /\ ~b.skip_mode
          /\ BlockingPassed(b, _advance_dialogue(b)) # {}

\* ------------------------------------------------------------------------
\* the frame entered a DialogueScene (enter resets the position to (0, 0))
DialogueEntered(log) ==
  \E i \in 1..Len(log) : log[i][1] = "enter" /\ log[i][2] = "DialogueScene"

\* lexicographic order of script positions
PositionLeq(s0, a0, s1, a1) == s0 < s1 \/ (s0 = s1 /\ a0 <= a1)

\* C26: within one scene entry the position (curr_step_idx, curr_action_idx)
\* never moves backward in lexicographic order: a frame that does not enter
\* a DialogueScene leaves the position where it was or moves it forward.
C26_PositionNeverMovesBackward ==
  [][ ~DialogueEntered(calls')
        => PositionLeq(curr_step_idx, curr_action_idx,
                       curr_step_idx', curr_action_idx') ]_vars

\* a frame without an enter has just finished a step and stopped inside the
\* next one
C26_Witness ==
  /\ Running(State)
  /\ ~DialogueEntered(calls)
  /\ \E i \in 1..Len(calls) : calls[i] = <<"update", "DialogueScene", 1>>
  /\ curr_step_idx > 1
  /\ curr_action_idx > 0

\* ------------------------------------------------------------------------
\* an infinite shake of positive duration whose timer has lapsed
ShakeLapsed == shake.infinite /\ shake.duration > 0 /\ shake.timer <= 0

\* update reseeds a lapsed infinite timer to duration and counts the frame
\* down from there, which leaves it positive for a frame time below duration
C27_LapsedTimerIsReseeded ==
  ShakeLapsed =>
    \A dt \in ShakeTimes :
      /\ ScreenShake_update(shake, dt).timer = shake.duration - dt
      /\ dt < shake.duration => ScreenShake_update(shake, dt).timer > 0

C27_TimerWithinDuration == shake.timer <= shake.duration

\* a lapsed timer gives the zero offset
C27_LapsedOffsetIsZero == shake.timer <= 0 => get_offset(shake) = {0}

\* a finite shake that has lapsed stays lapsed unless start is called
C27_FiniteShakeStaysOver ==
  [][ (~shake.infinite /\ shake.timer <= 0 /\ calls' # << <<"start", "ScreenShake", 0>> >>)
        => (shake' = shake /\ get_offset(shake') = {0}) ]_vars

\* C27: with infinite = true and duration > 0 a lapsed shake timer is
\* reseeded to duration by update, so timer > 0 comes back after every lapse
\* for frame times below duration, and the timer never exceeds duration;
\* with infinite = false the offset is the zero vector from the moment the
\* timer is <= 0 until start is called again.
C27_InfiniteShakeRecursFiniteShakeEnds ==
  /\ [](C27_LapsedTimerIsReseeded /\ C27_TimerWithinDuration /\ C27_LapsedOffsetIsZero)
  /\ C27_FiniteShakeStaysOver

\* an update has just let an infinite shake lapse
C27_Witness ==
  /\ ShakeLapsed
  /\ calls = << <<"update", "ScreenShake", 0>> >>
  /\ shake.intensity > 0

\* a finite shake has lapsed under update
C27_FiniteWitness ==
  /\ ~shake.infinite /\ shake.duration > 0 /\ shake.timer <= 0
  /\ calls = << <<"update", "ScreenShake", 0>> >>

\* ------------------------------------------------------------------------
\* the characters whose highlight flag is set
Highlighted(s) ==
  {k \in DOMAIN s.characters.is_highlighted : s.characters.is_highlighted[k]}

\* ids a script can name: nobody, the roster, and an id outside the roster
HighlightTargets == {"", "alice", "bob", "carol"}

AfterHighlight(c, dim) == set_highlight(State, [character_id |-> c, dim_others |-> dim])

\* C28: after set_highlight(c, dim_others = true) with non-empty c, c is the
\* only character whose highlight flag is set; after set_highlight("", true)
\* no character is highlighted; with dim_others = false the flags of all
\* characters other than c are unchanged (and c, when non-empty, is set).
C28_HighlightLaw ==
  \A c \in HighlightTargets :
    /\ c # "" => Highlighted(AfterHighlight(c, TRUE)) = {c}
    /\ Highlighted(AfterHighlight("", TRUE)) = {}
    /\ DOMAIN AfterHighlight(c, TRUE).characters.is_highlighted
         = DOMAIN characters.is_highlighted \cup ({c} \ {""})
    /\ \A k \in DOMAIN characters.is_highlighted \ {c} :
         /\ k \in DOMAIN AfterHighlight(c, FALSE).characters.is_highlighted
         /\ AfterHighlight(c, FALSE).characters.is_highlighted[k] = characters.is_highlighted[k]
    /\ c # "" => c \in Highlighted(AfterHighlight(c, FALSE))
    /\ Highlighted(AfterHighlight(c, FALSE)) \subseteq Highlighted(State) \cup {c}

\* the script's set_highlight("alice", true) has been applied next to a
\* second character, so a further call has a set flag to dim or to keep
C28_Witness ==
  /\ Running(State)
  /\ scene_id = "stage"
  /\ curr_step_idx = 0 /\ curr_action_idx = 3
  /\ Highlighted(State) = {"alice"}
  /\ "bob" \in DOMAIN characters.is_highlighted

\* ------------------------------------------------------------------------
\* the history matches the show_text actions applied since the scene was
\* entered, in script order, each once
HistoryMatches(s) == s.dialogue_history = HistoryOf(AppliedActions(s))

C29_SkipNeverRaises == error # "IndexError"

C29_SkipDropsNoEntry ==
  (error = NoError /\ DialogueOnStack(scene_stack))
    => Len(dialogue_history) >= Len(HistoryOf(AppliedActions(State)))

\* C29: the dialogue history always equals the sequence of (speaker, text)
\* pairs of the show_text actions visited so far, in script order, each
\* exactly once; the skip button, pressed in any engine state, neither
\* duplicates nor drops an entry, nor raises.
C29_HistoryIsTheVisitedShowTexts ==
  /\ C29_SkipNeverRaises
  /\ (error = NoError /\ DialogueOnStack(scene_stack)) => HistoryMatches(State)

\* skip pressed at the end of the script has dropped the last entry
C29_HistoryKeptAtScriptEnd ==
  (error = NoError /\ DialogueOnStack(scene_stack) /\ ScriptFinished(State))
    => HistoryMatches(State)

\* skip pressed while a prompt is awaited has dropped the last entry
C29_HistoryKeptOnPrompt ==
  (error = NoError /\ DialogueOnStack(scene_stack) /\ OnAction(State, "prompt"))
    => HistoryMatches(State)

\* ------------------------------------------------------------------------
IsPrompt(action) == action.type = "prompt"

\* the prompt actions the engine has advanced past since the scene was entered
PromptsPassed(s) == SelectSeq(ActionsBefore(s), IsPrompt)

\* the flag map holds one of the option flag values of the prompt under its key
ChoiceRecorded(g, action) ==
  /\ action.args.id \in DOMAIN g
  /\ \E i \in 1..Len(action.args.options) : g[action.args.id] = action.args.options[i].flag_value

\* C30: whenever the engine has advanced past a prompt action with flag key
\* k, g_flags[k] holds one of that prompt's option flag values; a PromptScene
\* cannot be dismissed (for example by ESC) so that the engine resumes with
\* no choice recorded.
C30_PassedPromptHasAChoice ==
  (error = NoError /\ DialogueOnStack(scene_stack)) =>
    \A i \in 1..Len(PromptsPassed(State)) : ChoiceRecorded(g_flags, PromptsPassed(State)[i])

\* the same for a prompt whose PromptScene has been popped: ESC dismisses it
\* without writing the flag
C30_DismissedPromptHasAChoice ==
  (error = NoError /\ DialogueOnStack(scene_stack) /\ PromptCount(scene_stack) = 0) =>
    \A i \in 1..Len(PromptsPassed(State)) : ChoiceRecorded(g_flags, PromptsPassed(State)[i])

\* ------------------------------------------------------------------------
\* a PromptScene is on top of the stack
PromptOnTop(s) ==
  Len(s.scene_stack) > 0 /\ s.scene_stack[Len(s.scene_stack)].type = "PromptScene"

\* the handle call of the PromptScene on top
TopPromptHandle(s, ev) == PromptScene_handle(s, Len(s.scene_stack), ev)

\* the scenes beneath the top
Beneath(stack) == SubSeq(stack, 1, Len(stack) - 1)

\* C31: one PromptScene.handle call removes at most one scene from the
\* stack, and only the PromptScene itself: no combination of events in one
\* frame (ESC with RETURN, RETURN with a click on an option) pops the scene
\* beneath it or writes a flag after the prompt has been popped.
C31_PromptPopsOnlyItself ==
  (error = NoError /\ PromptOnTop(State)) =>
    \A ev \in CoreEvents :
      /\ Len(TopPromptHandle(State, ev).scene_stack) >= Len(scene_stack) - 1
      /\ Beneath(scene_stack)
           = SubSeq(TopPromptHandle(State, ev).scene_stack, 1, Len(scene_stack) - 1)

\* a single dismissing input pops the prompt alone
C31_SingleInputPopsOnlyItself ==
  (error = NoError /\ PromptOnTop(State)) =>
    \A ev \in CoreEvents :
      (Cardinality(ev.key_down \cap {K_ESCAPE, K_RETURN})
         + (IF 1 \in ev.mouse_down /\ OptionHit(ev.mouse_pos, Len(scene_stack[Len(scene_stack)].option_flags)) >= 0
            THEN 1 ELSE 0) <= 1)
        => Len(TopPromptHandle(State, ev).scene_stack) >= Len(scene_stack) - 1

\* the DialogueScene has been popped by its prompt: the stack is empty while
\* the program runs on
C31_EngineStaysStacked ==
  (error = NoError /\ pending_switch = None) => Len(scene_stack) > 0

\* ------------------------------------------------------------------------
\* the last action the engine has applied in its script
LastApplied(s) == AppliedActions(s)[Len(AppliedActions(s))]

\* the handle and update phases of the frame have requested a switch
SwitchRequested(s, u) ==
  /\ Running(s) /\ s.pending_switch = None
  /\ Ok(u) /\ u.pending_switch # None

\* C32: once change_dialogue_scene has requested a switch, the engine applies
\* no further action of the old script: when the update phase ends with a
\* switch pending, the last action applied is the change_dialogue_scene that
\* requested it, and no sub-scene has been pushed.
C32_NoActionAfterSwitchRequest ==
  \A ev \in CoreEvents, dt \in FrameTimes :
    SwitchRequested(State, AfterUpdate(State, ev, dt)) =>
      /\ LastApplied(AfterUpdate(State, ev, dt)).type = "change_dialogue_scene"
      /\ PromptCount(AfterUpdate(State, ev, dt).scene_stack) <= PromptCount(scene_stack)

\* ------------------------------------------------------------------------
\* what enter leaves of a script with steps: step 0 has been attempted from
\* action 0, so the engine stands on an applied blocking action of step 0 or
\* at its end, with no continue request
EnteredAtStepZero(s) ==
  /\ s.curr_step_idx = 0
  /\ ~s.continue_dialogue
  /\ IF s.curr_action_idx < Len(Actions(s))
     THEN /\ Applied(s)
          /\ Actions(s)[s.curr_action_idx + 1].type \in {"show_text", "prompt"}
          /\ s.awaiting_overlays = (IF OnAction(s, "prompt") THEN <<"PromptScene">> ELSE << >>)
     ELSE s.last_action_idx = 0 - 1
  /\ \A i \in 1..s.curr_action_idx : Actions(s)[i].type \notin {"show_text", "prompt"}

\* C33: entering the engine puts it at step 0, action 0 with the marker at
\* -1, the continue flag cleared and no awaited overlay, and immediately
\* attempts step 0; for a script with zero steps, entry raises no error and
\* the engine is in ScriptFinished (curr_step_idx = len(steps) = 0).
C33_EnterAttemptsStepZero ==
  DialogueEntered(calls) =>
    /\ error = NoError
    /\ IF Len(Steps(State)) = 0
       THEN curr_step_idx = 0 /\ ScriptFinished(State)
       ELSE EnteredAtStepZero(State)

\* the part of C33 about scripts that have steps
C33_EnterOfScriptWithSteps ==
  (DialogueEntered(calls) /\ Len(Steps(State)) > 0)
    => (error = NoError /\ EnteredAtStepZero(State))

\* the part of C33 about the script with zero steps
C33_EnterOfEmptyScriptRaisesNothing ==
  (DialogueEntered(calls) /\ Len(Steps(State)) = 0) => error = NoError

\* ------------------------------------------------------------------------
\* the state UpdateAutoMode finds in a frame: handle, animators, typewriter
BeforeAutoMode(s, ev, dt) ==
  TwUpdate(UpdateAnimators(_update_background_transition(UpdateShake(AfterHandle(s, ev), dt), dt), dt), dt)

\* auto mode sets the continue flag only when the reveal has finished and the
\* timer, with this frame's time, has reached the delay
C34_AutoContinueLaw ==
  \A ev \in CoreEvents, dt \in FrameTimes :
    (Running(State) /\ Running(AfterHandle(State, ev))
       /\ ~BeforeAutoMode(State, ev, dt).continue_dialogue
       /\ UpdateAutoMode(BeforeAutoMode(State, ev, dt), dt).continue_dialogue)
      => /\ BeforeAutoMode(State, ev, dt).auto_mode
         /\ is_finished(BeforeAutoMode(State, ev, dt))
         /\ AutoDelayReached(State, BeforeAutoMode(State, ev, dt).auto_advance_timer + dt)
         /\ UpdateAutoMode(BeforeAutoMode(State, ev, dt), dt).auto_advance_timer = 0

\* the timer is zero unless auto mode is on, the reveal has finished and the
\* time since then is still below the delay
C34_TimerRunsOnlyWhileWaiting ==
  auto_advance_timer > 0 =>
    (auto_mode /\ is_finished(State) /\ ~AutoDelayReached(State, auto_advance_timer))

\* a frame of positive elapsed time before the end of the script changes the
\* state: the reveal, the timer or the position moves
C34_FrameMakesProgress ==
  (error = NoError /\ ~ScriptFinished(State)) =>
    \A dt \in PositiveFrameTimes : SceneManager_update(State, NoInput, dt) # State

\* a run of the main loop that never stops making such frames reaches the
\* end of the script
C34_ReachesScriptFinished == ([]<><<NextAuto>>_vars) => <>ScriptFinished(State)

\* C34: with auto mode on, a positive reveal rate and frames of positive
\* elapsed time, a script without a prompt eventually reaches ScriptFinished
\* with no keyboard or mouse input; and auto mode sets the continue flag only
\* after the reveal has finished and the timer has accumulated at least the
\* auto-advance delay since it was last reset.
C34_AutoModeFinishesTheScript ==
  /\ C34_ReachesScriptFinished
  /\ [](C34_FrameMakesProgress /\ C34_AutoContinueLaw /\ C34_TimerRunsOnlyWhileWaiting)

\* auto mode has passed a show_text on its own and has started to wait on the
\* next one
C34_Witness ==
  /\ auto_mode
  /\ curr_step_idx > 0
  /\ OnAction(State, "show_text")
  /\ is_finished(State)
  /\ auto_advance_timer > 0

\* ------------------------------------------------------------------------
\* the actions at and behind the position of s, in script order
ActionsAhead(s) ==
  SubSeq(FlattenSteps(Steps(s), Len(Steps(s))), Len(ActionsBefore(s)) + 1,
         Len(FlattenSteps(Steps(s), Len(Steps(s)))))

NoPromptLeft(s) == SelectSeq(ActionsAhead(s), IsPrompt) = << >>

\* skip mode is cleared only by a frame in which the engine passes a prompt
C35_SkipClearedOnlyByPrompt ==
  [][ (Running(State) /\ skip_mode /\ ~skip_mode' /\ ~DialogueEntered(calls'))
        => SelectSeq(PassedActions(State, State'), IsPrompt) # << >> ]_vars

\* with skip mode on and no prompt left, a frame without continue input ends
\* the script or moves the engine at least one step forward, skip mode kept
C35_SkipFrameLaw ==
  \A dt \in FrameTimes :
    (Running(State) /\ skip_mode /\ NoPromptLeft(State) /\ ~ScriptFinished(State)
       /\ Ok(AfterUpdate(State, NoInput, dt)))
      => /\ AfterUpdate(State, NoInput, dt).skip_mode
         /\ \/ ScriptFinished(AfterUpdate(State, NoInput, dt))
            \/ AfterUpdate(State, NoInput, dt).curr_step_idx > curr_step_idx

\* C35: skip mode, once enabled, stays enabled across step boundaries and is
\* cleared only when the engine passes a prompt; with skip mode on and no
\* prompt left in the script the engine reaches ScriptFinished in a bounded
\* number of frames (at most one per step) with no continue input, and skip
\* mode is still set when it gets there.
C35_SkipModeRunsToTheEnd ==
  /\ []C35_SkipFrameLaw
  /\ C35_SkipClearedOnlyByPrompt

\* skip mode has carried the engine over a step boundary to the end of the
\* script
C35_Witness ==
  /\ Running(State)
  /\ skip_mode
  /\ ScriptFinished(State)
  /\ Len(Steps(State)) > 1

\* ------------------------------------------------------------------------
\* The frames of a session whose language is changed while a dialogue runs
\* ------------------------------------------------------------------------
\* the longest button list the language changes are followed to
MaxButtons == 10

InitReload == \E id \in {"intro", "gallery"} : Holds(Started(id))

\* SceneManager.reload_language_data is called between two frames
LanguageChanged ==
  /\ error = NoError
  /\ ~reloading_language_data
  /\ Len(buttons) < MaxButtons
  /\ Install(SceneManager_reload_language_data(State))

NextReload ==
  \/ \E ev \in GalleryEvents \cup {Event({}, {}, {1}, "opt0")}, dt \in FrameTimes : Tick(ev, dt)
  \/ LanguageChanged

SpecReload == InitReload /\ [][NextReload]_vars

\* the last set_background among the actions the engine has applied, None if
\* it has applied none
LatestExecutedBackground(s) ==
  LatestIn(AppliedActions(s), Len(AppliedActions(s)))

\* the notification leaves the position, the marker and the history alone
C36_ReloadKeepsPosition ==
  (Running(State) /\ Ok(DialogueScene_reload_language_data(State)))
    => /\ DialogueScene_reload_language_data(State).curr_step_idx = curr_step_idx
       /\ DialogueScene_reload_language_data(State).curr_action_idx = curr_action_idx
       /\ DialogueScene_reload_language_data(State).last_action_idx = last_action_idx
       /\ DialogueScene_reload_language_data(State).dialogue_history = dialogue_history

\* the notification raises no error
C36_ReloadRaisesNothing ==
  Running(State) => Ok(DialogueScene_reload_language_data(State))

\* the notification leaves positions, animators and highlight flags alone
C36_ReloadKeepsCharacters ==
  (Running(State) /\ Ok(DialogueScene_reload_language_data(State)))
    => /\ DialogueScene_reload_language_data(State).characters.pos = characters.pos
       /\ DialogueScene_reload_language_data(State).characters.animator = characters.animator
       /\ DialogueScene_reload_language_data(State).characters.is_highlighted
            = characters.is_highlighted

\* the notification leaves the number of buttons alone
C36_ReloadKeepsButtons ==
  (Running(State) /\ Ok(DialogueScene_reload_language_data(State)))
    => Len(DialogueScene_reload_language_data(State).buttons) = Len(buttons)

\* the background after the notification is that of the latest executed
\* set_background
C36_ReloadShowsLatestBackground ==
  (Running(State) /\ Ok(DialogueScene_reload_language_data(State)))
    => DialogueScene_reload_language_data(State).background = LatestExecutedBackground(State)

\* C36: a locale-reload notification delivered in any state of the engine
\* raises no error and leaves step index, action index, last-applied marker,
\* history, character positions, in-flight animators, highlight flags and the
\* number of buttons unchanged; the background after it is that of the latest
\* executed set_background.
C36_ReloadLeavesTheSceneAsItWas ==
  /\ C36_ReloadRaisesNothing
  /\ C36_ReloadKeepsPosition
  /\ C36_ReloadKeepsCharacters
  /\ C36_ReloadKeepsButtons
  /\ C36_ReloadShowsLatestBackground

\* a frame has delivered the notification to a running dialogue: the button
\* list is twice as long as the scene built it
C36_Reloaded ==
  /\ Running(State)
  /\ Len(buttons) = 2 * Len(ButtonActions)
  /\ \E i \in 1..Len(calls) : calls[i][1] = "reload" /\ calls[i][2] = "DialogueScene"

\* ------------------------------------------------------------------------
\* The frames of scene "reading" under every text reveal speed
\* ------------------------------------------------------------------------
\* the range of the speed entry of the settings screen
text_speed_min == 0

text_speed_max == 100

InitSpeed ==
  \E v \in text_speed_min..text_speed_max :
    Holds(StartedFrom([Constructed EXCEPT !.config_value = v], "reading"))

NextSpeed == \E dt \in PositiveFrameTimes : Tick(NoInput, dt)

SpecSpeed == InitSpeed /\ [][NextSpeed]_vars

\* the engine is constructed without error under every speed setting
C37_EverySpeedConstructs == error = NoError

\* the reveal scale is positive under every speed setting
C37_ScaleIsPositive == config_cps_scale(State) > 0

\* the middle setting gives the scale 1.0
C37_MidpointIsOne ==
  config_value = speed_midpoint => config_cps_scale(State) = speed_midpoint

\* under a positive scale a frame of positive time moves an unfinished reveal
C37_FrameReveals ==
  \A dt \in PositiveFrameTimes :
    (Running(State) /\ ~is_finished(State) /\ config_cps_scale(State) > 0)
      => SceneManager_update(State, NoInput, dt).tw_progress > tw_progress

\* an engine that was constructed finishes the reveal of its first text
C37_RevealFinishes ==
  ([]<><<NextSpeed>>_vars) => <>(~Running(State) \/ is_finished(State))

\* C37: for every text reveal speed from 0 to 100 the engine is constructed
\* without error and its reveal scale is positive, so that a non-empty
\* show_text eventually finishes; the setting 50 gives the scale 1.0.
C37_EverySpeedRevealsItsText ==
  /\ C37_EverySpeedConstructs
  /\ C37_ScaleIsPositive
  /\ C37_MidpointIsOne

\* ------------------------------------------------------------------------
\* The frames of a dialogue whose interface is hidden and shown again
\* ------------------------------------------------------------------------
HidePositions == {"none", "hide", "auto", "skip"}

\* the pointer moves, the left button goes down, a continue key goes down or
\* up, a key and the button go down in one frame
HideEvents ==
  {Event({}, {}, {}, p) : p \in HidePositions}
  \cup {Event({}, {}, {1}, p) : p \in HidePositions}
  \cup {Event({K_SPACE}, {}, {}, "none"), Event({}, {K_SPACE}, {}, "none"),
        Event({K_SPACE}, {}, {1}, "none"), Event({K_SPACE}, {}, {1}, "skip")}

InitHide == \E id \in {"intro", "gallery"} : Holds(Started(id))

NextHide == \E ev \in HideEvents, dt \in FrameTimes : Tick(ev, dt)

SpecHide == InitHide /\ [][NextHide]_vars

\* the state DialogueScene.handle finds once the keys of the event have been
\* dealt with
BeforeClick(s, ev) == keyboard_event([s EXCEPT !.mouse_pos = ev.mouse_pos], ev)

\* C39: while hide mode is on, a left click only turns hide mode off: it sets
\* no continue request, completes no reveal, triggers no button action and
\* leaves the press guard and every other mode flag as they were; whatever
\* else the frame's input does is the doing of its keys.
C39_HideClickOnlyUnhides ==
  \A ev \in HideEvents :
    (Running(State) /\ hide_mode /\ 1 \in ev.mouse_down)
      => /\ DialogueScene_handle(State, ev) = [BeforeClick(State, ev) EXCEPT !.hide_mode = FALSE]
         /\ (ev.key_down = {} /\ ev.key_up = {})
              => DialogueScene_handle(State, ev)
                   = [State EXCEPT !.hide_mode = FALSE, !.mouse_pos = ev.mouse_pos]

\* hide mode is on over an unfinished reveal with the pointer on a button and
\* the press guard open: a click that were handled any further would show
C39_Witness ==
  /\ Running(State)
  /\ hide_mode
  /\ ~is_finished(State)
  /\ hovered \in ButtonNames
  /\ ~last_pressed_continue

\* ------------------------------------------------------------------------
\* Enter and leave hooks against the stack
\* ------------------------------------------------------------------------
TypesOf(stack) == [i \in 1..Len(stack) |-> stack[i].type]

Misplaced == <<"misplaced">>

\* the scenes whose last hook call is enter, bottom first, after the hook
\* calls of log from entry k on, entered being those before; Misplaced when
\* an enter is not that of a new top or a leave is not that of the top
RECURSIVE EnteredAfter(_, _, _)
EnteredAfter(log, k, entered) ==
  IF k > Len(log) \/ entered = Misplaced THEN entered
  ELSE IF log[k][1] = "enter"
       THEN EnteredAfter(log, k + 1,
                         IF log[k][3] = Len(entered) + 1 THEN Append(entered, log[k][2])
                         ELSE Misplaced)
  ELSE IF log[k][1] = "leave"
       THEN EnteredAfter(log, k + 1,
                         IF Len(entered) > 0 /\ log[k][3] = Len(entered)
                            /\ entered[Len(entered)] = log[k][2]
                         THEN SubSeq(entered, 1, Len(entered) - 1)
                         ELSE Misplaced)
  ELSE EnteredAfter(log, k + 1, entered)

\* at a tick boundary the stack holds the scenes whose last hook is enter
C38_StackIsTheEnteredScenes ==
  [][ EnteredAfter(calls', 1, TypesOf(scene_stack)) = TypesOf(scene_stack') ]_vars

\* the scenes stacked before the first frame have been entered and not left
C38_StartsEntered ==
  (Len(calls) = 0 \/ calls[1][1] # "tick")
    => EnteredAfter(calls, 1, << >>) = TypesOf(scene_stack)

\* C38: for every scene enter and leave alternate, starting with enter, and
\* at every tick boundary a scene is on the stack exactly when its last hook
\* call was enter: every enter is that of a scene just put on top, every
\* leave is that of the scene just taken from the top, and the stack after
\* the frame is the stack before it with the entered scenes added and the
\* left ones removed, in the order of the calls.
C38_EnterAndLeaveAlternate ==
  /\ []C38_StartsEntered
  /\ C38_StackIsTheEnteredScenes

\* a frame in which two scenes were left and another one was entered
C38_Witness ==
  /\ TickLogged
  /\ error = NoError
  /\ Cardinality(Hooks(calls, "leave")) >= 2
  /\ Cardinality(Hooks(calls, "enter")) >= 1
  /\ Len(scene_stack) = 1

====
